---------------------------- MODULE Spec2Model ----------------------------
(***************************************************************************)
(* A model of the PolySURF surface-slab generator: the integer in-plane    *)
(* basis search, the 2D Lagrange-Gauss and 3D LLL reductions, the slab     *)
(* geometry solver, the slab populator, the molecule finder, the dipole    *)
(* reconstructor, the void crawler and the run of the command line.        *)
(*                                                                         *)
(* Integer code (i32) is modelled with integers.  Floating-point code is   *)
(* modelled with exact rationals <<num, den>>; the inputs are drawn from   *)
(* lattices and Miller indices whose reciprocal normal has a rational      *)
(* length, so that every square root the code takes is exact.              *)
(***************************************************************************)
EXTENDS Integers, Sequences, FiniteSets, TLC

VARIABLES
    basis,   \* integer_basis.rs: the call of find_primitive_in_plane_basis
    red,     \* lll.rs: the running call of reduce_2d_integer
    geo,     \* builder.rs: the call of SlabBuilder::compute_geometry
    mf,      \* connectivity.rs: the call of MoleculeFinder::find_molecules_with_indices
    pop,     \* population.rs: the call of SlabPopulator::populate
    stack,   \* integer_basis.rs: the call of find_stacking_vector
    ion,     \* ionic.rs: the call of IonicReconstructor::stabilize
    lll,     \* lll.rs: the running call of lll_reduce
    det,     \* connectivity.rs: two runs of find_molecules on one input
    cli      \* main.rs: the run of the command-line program

vars == <<basis, red, geo, mf, pop, stack, ion, lll, det, cli>>

Idle == [pc |-> "idle"]

(***************************************************************************)
(* Bounds of the model.                                                    *)
(***************************************************************************)
MaxMiller == 3      \* Miller indices are drawn from -MaxMiller..MaxMiller
MaxComp == 2        \* x and y components of the vectors given to reduce_2d_integer
MaxZ == 1           \* z components of the vectors given to reduce_2d_integer

(***************************************************************************)
(* Integer helpers (Rust i32 semantics).                                   *)
(***************************************************************************)
Abs(x) == IF x < 0 THEN -x ELSE x

Sign(x) == IF x < 0 THEN -1 ELSE IF x > 0 THEN 1 ELSE 0

\* Rust's integer division truncates toward zero.
TruncDiv(a, b) == Sign(a) * Sign(b) * (Abs(a) \div Abs(b))

\* integer_basis.rs gcd: Euclid on absolute values; gcd(0, 0) = 0.
RECURSIVE gcdLoop(_, _)
gcdLoop(a, b) == IF b = 0 THEN a ELSE gcdLoop(b, a % b)

gcd(a, b) == gcdLoop(Abs(a), Abs(b))

Dot(a, b) == a[1] * b[1] + a[2] * b[2] + a[3] * b[3]

Cross(a, b) == << a[2] * b[3] - a[3] * b[2],
                  a[3] * b[1] - a[1] * b[3],
                  a[1] * b[2] - a[2] * b[1] >>

Zero3 == <<0, 0, 0>>

VScale(a, m) == << a[1] * m, a[2] * m, a[3] * m >>

VSub(a, b) == << a[1] - b[1], a[2] - b[2], a[3] - b[3] >>

VAdd(a, b) == << a[1] + b[1], a[2] + b[2], a[3] + b[3] >>

VDivInt(a, g) == << TruncDiv(a[1], g), TruncDiv(a[2], g), TruncDiv(a[3], g) >>

Gcd3(a) == gcd(gcd(a[1], a[2]), a[3])

(***************************************************************************)
(* integer_basis.rs: find_primitive_in_plane_basis.                        *)
(* The result is Err for (0,0,0), a panic when a vector is divided by a    *)
(* zero gcd, and Ok(u, v) otherwise.                                       *)
(***************************************************************************)
TrialVectorNoSwitch(n) == <<0, 0, 1>>

\* t = (0,0,1), or (0,1,0) when n x t = 0
TrialVector(n) == IF Cross(n, <<0, 0, 1>>) = Zero3 THEN <<0, 1, 0>> ELSE <<0, 0, 1>>

find_primitive_from_trial(n, t) ==
    LET u_raw == Cross(n, t)
        common_u == Gcd3(u_raw)
    IN  IF common_u = 0 THEN [kind |-> "panic"]
        ELSE LET u == VDivInt(u_raw, common_u)
                 v_raw == Cross(n, u)
                 common_v == Gcd3(v_raw)
             IN  IF common_v = 0 THEN [kind |-> "panic"]
                 ELSE [kind |-> "ok", u |-> u, v |-> VDivInt(v_raw, common_v)]

find_primitive_unguarded(h, k, l) ==
    find_primitive_from_trial(IF h = 0 /\ k = 0 /\ l = 0 THEN <<0, 0, 1>> ELSE <<h, k, l>>,
                              TrialVector(<<h, k, l>>))

find_primitive_in_plane_basis(h, k, l) ==
    IF h = 0 /\ k = 0 /\ l = 0 THEN [kind |-> "err", why |-> "Miller indices cannot be (0,0,0)."]
    ELSE find_primitive_from_trial(<<h, k, l>>, TrialVector(<<h, k, l>>))

MillerRange == -MaxMiller .. MaxMiller

MillerTriples == MillerRange \X MillerRange \X MillerRange

BasisInit ==
    /\ basis \in { [pc |-> "call", hkl |-> n] : n \in MillerTriples }
    /\ red = Idle
    /\ geo = Idle
    /\ mf = Idle
    /\ pop = Idle
    /\ stack = Idle
    /\ ion = Idle
    /\ lll = Idle
    /\ det = Idle
    /\ cli = Idle

BasisCall ==
    /\ basis.pc = "call"
    /\ basis' = [pc |-> "returned", hkl |-> basis.hkl,
                 res |-> find_primitive_in_plane_basis(basis.hkl[1], basis.hkl[2], basis.hkl[3])]
    /\ UNCHANGED <<red, geo, mf, pop, stack, ion, lll, det, cli>>

BasisNext == BasisCall

SpecIntegerBasis == BasisInit /\ [][BasisNext]_vars

BasisReturnedOk == basis.pc = "returned" /\ basis.hkl # Zero3

\* C1: for every (h,k,l) other than (0,0,0) the call returns Ok((u,v)) (no
\* division by a zero gcd) with n.u = 0, n.v = 0, gcd of the components of u
\* equal to 1, the same for v, and u x v nonzero.
C1_PrimitiveOrthogonalPair ==
    BasisReturnedOk =>
        /\ basis.res.kind = "ok"
        /\ Dot(basis.hkl, basis.res.u) = 0
        /\ Dot(basis.hkl, basis.res.v) = 0
        /\ Gcd3(basis.res.u) = 1
        /\ Gcd3(basis.res.v) = 1
        /\ Cross(basis.res.u, basis.res.v) # Zero3

\* The call has returned for a normal along z, where the trial vector is switched.
C1_Witness ==
    /\ BasisReturnedOk
    /\ basis.hkl = <<0, 0, 2>>
    /\ basis.res.kind = "ok"

\* C2: the returned pair spans the whole integer lattice of the plane:
\* u x v = +-(h,k,l)/gcd(h,k,l).
C2_SpansPlaneLattice ==
    (BasisReturnedOk /\ basis.res.kind = "ok") =>
        LET g == Gcd3(basis.hkl)
            p == VDivInt(basis.hkl, g)
            c == Cross(basis.res.u, basis.res.v)
        IN  c = p \/ c = VScale(p, -1)

(***************************************************************************)
(* lll.rs: reduce_2d_integer, one action for the entry swap and one per    *)
(* iteration of its loop.                                                  *)
(***************************************************************************)
\* (a as f64 / b as f64).round() as i32, b > 0: f64::round rounds half away from zero.
RoundDiv(a, b) == Sign(a) * ((2 * Abs(a) + b) \div (2 * b))

SwapNever(u, v) == <<u, v>>

\* if u.dot(&u) > v.dot(&v) { swap(&mut u, &mut v) }
SwapIfLonger(u, v) == IF Dot(u, u) > Dot(v, v) THEN <<v, u>> ELSE <<u, v>>

ShortenBySelf(u, v, mu) == VSub(v, VScale(v, mu))

\* let v_new = v - u * mu;
Shorten(u, v, mu) == VSub(v, VScale(u, mu))

CompRange == -MaxComp .. MaxComp

IntVectors == CompRange \X CompRange \X (-MaxZ .. MaxZ)

RedInit ==
    /\ red \in { [pc |-> "entry", u |-> a, v |-> b, u0 |-> a, v0 |-> b, iters |-> 0] :
                 a \in IntVectors, b \in IntVectors }
    /\ basis = Idle
    /\ geo = Idle
    /\ mf = Idle
    /\ pop = Idle
    /\ stack = Idle
    /\ ion = Idle
    /\ lll = Idle
    /\ det = Idle
    /\ cli = Idle

RedEntry ==
    /\ red.pc = "entry"
    /\ LET s == SwapIfLonger(red.u, red.v)
       IN  red' = [red EXCEPT !.pc = "loop", !.u = s[1], !.v = s[2]]
    /\ UNCHANGED <<basis, geo, mf, pop, stack, ion, lll, det, cli>>

ReduceBodyUnchecked(u, v) ==
    LET dot == Dot(u, v)
        norm_sq == Dot(u, u)
    IN  IF norm_sq = 0 THEN [ret |-> TRUE, u |-> u, v |-> v]
        ELSE LET mu == RoundDiv(dot, norm_sq)
                 s == SwapIfLonger(u, Shorten(u, v, mu))
             IN  IF mu = 0 THEN [ret |-> TRUE, u |-> u, v |-> v]
                 ELSE [ret |-> FALSE, u |-> s[1], v |-> s[2]]

\* One pass through the body of `loop { ... }`: the pair it leaves and
\* whether it returned.
ReduceBody(u, v) ==
    LET dot == Dot(u, v)
        norm_sq == Dot(u, u)
    IN  IF norm_sq = 0 THEN [ret |-> TRUE, u |-> u, v |-> v]
        ELSE LET mu == RoundDiv(dot, norm_sq)
                 v_new == Shorten(u, v, mu)
             IN  IF mu = 0 THEN [ret |-> TRUE, u |-> u, v |-> v]
                 ELSE IF Dot(v_new, v_new) >= Dot(v, v)
                      THEN [ret |-> TRUE, u |-> u, v |-> v]
                      ELSE LET s == SwapIfLonger(u, v_new)
                           IN  [ret |-> FALSE, u |-> s[1], v |-> s[2]]

RedIterate ==
    /\ red.pc = "loop"
    /\ LET r == ReduceBody(red.u, red.v)
       IN  IF r.ret THEN red' = [red EXCEPT !.pc = "done"]
           ELSE red' = [red EXCEPT !.u = r.u, !.v = r.v, !.iters = red.iters + 1]
    /\ UNCHANGED <<basis, geo, mf, pop, stack, ion, lll, det, cli>>

RedNext == RedEntry \/ RedIterate

SpecReduce2D == RedInit /\ [][RedNext]_vars

\* C8: the returned pair satisfies u'.u' <= v'.v' and 2|u'.v'| <= u'.u'.
C8_LagrangeReduced ==
    red.pc = "done" =>
        /\ Dot(red.u, red.u) <= Dot(red.v, red.v)
        /\ 2 * Abs(Dot(red.u, red.v)) <= Dot(red.u, red.u)

\* A call that swapped on entry, shortened v at least once and returned.
C8_Witness ==
    /\ red.pc = "done"
    /\ red.iters >= 1
    /\ Dot(red.u0, red.u0) > Dot(red.v0, red.v0)
    /\ red.u # Zero3

CoefBound == 4 * MaxComp + 2

Coefs == -CoefBound .. CoefBound

\* x = a*u0 + b*v0
Combo(a, b, p, q) == VAdd(VScale(p, a), VScale(q, b))

\* C9: each returned vector is an integer combination of the input pair and the
\* coefficient matrix has determinant +1 or -1; a call with u = 0 returns its
\* inputs unchanged.
C9_SameSublattice ==
    red.pc = "done" =>
        /\ \E a \in Coefs, b \in Coefs :
              /\ red.u = Combo(a, b, red.u0, red.v0)
              /\ \E c \in Coefs, d \in Coefs :
                    /\ red.v = Combo(c, d, red.u0, red.v0)
                    /\ a * d - b * c \in {1, -1}
        /\ (red.u0 = Zero3 => (red.u = red.u0 /\ red.v = red.v0))

\* A call that returned after changing both vectors of an independent pair.
C9_Witness ==
    /\ red.pc = "done"
    /\ red.iters >= 2
    /\ Cross(red.u0, red.v0) # Zero3
    /\ red.u # red.u0 /\ red.v # red.v0 /\ red.u # red.v0

\* reduce_2d_integer as a function: the entry swap, then the loop until it returns.
RECURSIVE reduce_loop(_, _)
reduce_loop(u, v) ==
    LET r == ReduceBody(u, v)
    IN  IF r.ret THEN <<r.u, r.v>> ELSE reduce_loop(r.u, r.v)

reduce_2d_integer(u, v) ==
    LET s == SwapIfLonger(u, v) IN reduce_loop(s[1], s[2])

(***************************************************************************)
(* Exact rationals <<n, d>>, d > 0, in lowest terms, standing for the f64  *)
(* values of the floating-point code.  Products cancel before they         *)
(* multiply and comparisons of large values go by continued fractions, so  *)
(* that the 10000 A auxiliary column of compute_geometry stays in range.   *)
(***************************************************************************)
\* n/d divided through by g, with a positive denominator.
QLowest(n, d, g) == <<Sign(d) * (n \div g), Abs(d) \div g>>

Q(n, d) == QLowest(n, d, gcd(n, d))

QInt(i) == <<i, 1>>

QZero == QInt(0)

QNeg(a) == <<-a[1], a[2]>>

\* a + b over the least common denominator, g the gcd of the denominators.
QAddOver(a, b, g) == Q(a[1] * (b[2] \div g) + b[1] * (a[2] \div g), (a[2] \div g) * b[2])

QAdd(a, b) == QAddOver(a, b, gcd(a[2], b[2]))

QSub(a, b) == QAdd(a, QNeg(b))

\* a * b with the common factors g1, g2 cancelled crosswise first.
QMulCancel(a, b, g1, g2) ==
    <<(a[1] \div g1) * (b[1] \div g2), (a[2] \div g2) * (b[2] \div g1)>>

QMul(a, b) ==
    IF a[1] = 0 \/ b[1] = 0 THEN QZero
    ELSE QMulCancel(a, b, gcd(a[1], b[2]), gcd(b[1], a[2]))

QInv(a) == <<Sign(a[1]) * a[2], Abs(a[1])>>

QDiv(a, b) == QMul(a, QInv(b))

QAbs(a) == <<Abs(a[1]), a[2]>>

\* Both terms are small enough for their cross products to stay in range.
IsSmall(a) == Abs(a[1]) < 30000 /\ a[2] < 30000

\* a < b for a, b >= 0, by comparing integer parts and then the reciprocals of
\* the fractional parts.
RECURSIVE QLtPos(_, _)
QLtPos(a, b) ==
    LET ia == a[1] \div a[2]
        ib == b[1] \div b[2]
        fa == a[1] % a[2]
        fb == b[1] % b[2]
    IN  IF ia # ib THEN ia < ib
        ELSE IF fb = 0 THEN FALSE
        ELSE IF fa = 0 THEN TRUE
        ELSE QLtPos(<<b[2], fb>>, <<a[2], fa>>)

QLt(a, b) ==
    IF IsSmall(a) /\ IsSmall(b) THEN a[1] * b[2] < b[1] * a[2]
    ELSE IF a[1] < 0 /\ b[1] >= 0 THEN TRUE
    ELSE IF a[1] >= 0 /\ b[1] < 0 THEN FALSE
    ELSE IF a[1] >= 0 THEN QLtPos(a, b)
    ELSE QLtPos(QNeg(b), QNeg(a))

QLe(a, b) == ~QLt(b, a)

\* f64::round: to the nearest integer, halves away from zero.
QRound(a) == Sign(a[1]) * ((2 * Abs(a[1]) + a[2]) \div (2 * a[2]))

QFloor(a) == a[1] \div a[2]

QCeil(a) == -((-a[1]) \div a[2])

QMax(a, b) == IF QLt(a, b) THEN b ELSE a

\* The integer square root, by bisection.
RECURSIVE ISqrtBisect(_, _, _)
ISqrtBisect(n, lo, hi) ==
    IF lo >= hi THEN lo
    ELSE LET mid == (lo + hi + 1) \div 2
         IN  IF mid <= n \div mid THEN ISqrtBisect(n, mid, hi)
             ELSE ISqrtBisect(n, lo, mid - 1)

ISqrt(n) == IF n <= 1 THEN n ELSE ISqrtBisect(n, 1, n)

IsSquare(n) == n >= 0 /\ ISqrt(n) * ISqrt(n) = n

QIsSquare(a) == IsSquare(a[1]) /\ IsSquare(a[2])

\* f64::sqrt on a value whose root is rational.
QSqrt(a) == <<ISqrt(a[1]), ISqrt(a[2])>>

(***************************************************************************)
(* Vector3<f64> and Matrix3<f64>; a matrix is the triple of its columns.   *)
(***************************************************************************)
QV(a) == <<QInt(a[1]), QInt(a[2]), QInt(a[3])>>

QVZero == QV(Zero3)

QVAdd(a, b) == <<QAdd(a[1], b[1]), QAdd(a[2], b[2]), QAdd(a[3], b[3])>>

QVSub(a, b) == <<QSub(a[1], b[1]), QSub(a[2], b[2]), QSub(a[3], b[3])>>

QVScale(a, q) == <<QMul(a[1], q), QMul(a[2], q), QMul(a[3], q)>>

QVDot(a, b) == QAdd(QAdd(QMul(a[1], b[1]), QMul(a[2], b[2])), QMul(a[3], b[3]))

QVCross(a, b) == << QSub(QMul(a[2], b[3]), QMul(a[3], b[2])),
                    QSub(QMul(a[3], b[1]), QMul(a[1], b[3])),
                    QSub(QMul(a[1], b[2]), QMul(a[2], b[1])) >>

QVNormSq(a) == QVDot(a, a)

QVNorm(a) == QSqrt(QVNormSq(a))

MatVec(m, f) == QVAdd(QVAdd(QVScale(m[1], f[1]), QVScale(m[2], f[2])), QVScale(m[3], f[3]))

Det(m) == QVDot(m[1], QVCross(m[2], m[3]))

\* m^-1 as the triple of its rows, which are the columns of (m^-1)^T.
ScaledCofactors(m, dinv) ==
    << QVScale(QVCross(m[2], m[3]), dinv),
       QVScale(QVCross(m[3], m[1]), dinv),
       QVScale(QVCross(m[1], m[2]), dinv) >>

InverseRows(m) == ScaledCofactors(m, QInv(Det(m)))

TransposeApply(rows, x) == <<QVDot(rows[1], x), QVDot(rows[2], x), QVDot(rows[3], x)>>

(***************************************************************************)
(* structure.rs: Lattice.                                                  *)
(***************************************************************************)
\* Lattice::new for a matrix of non-zero volume: the matrix and (m^-1)^T.
Lattice(m) == [matrix |-> m, reciprocal_matrix |-> InverseRows(m)]

to_cartesian(lat, frac) == MatVec(lat.matrix, frac)

to_fractional(lat, cart) == TransposeApply(lat.reciprocal_matrix, cart)

Diag(a, b, c) == << <<a, QZero, QZero>>, <<QZero, b, QZero>>, <<QZero, QZero, c>> >>

(***************************************************************************)
(* lll.rs: lll_reduce, delta = 0.75, on the three columns of a matrix.     *)
(***************************************************************************)
Half == <<1, 2>>

LLLDelta == <<3, 4>>

SetCol(b, i, c) == [b EXCEPT ![i] = c]

SwapCols(b, i, j) == [b EXCEPT ![i] = b[j], ![j] = b[i]]

\* mu = x . s / s . s
MuCoef(x, s) == QDiv(QVDot(x, s), QVDot(s, s))

\* col_i -= b*_j * mu, with mu = b_i . b*_j / b*_j . b*_j taken from the
\* column b_i of b.
SubtractProjection(b_i, col_i, bs_j) == QVSub(col_i, QVScale(bs_j, MuCoef(b_i, bs_j)))

GramSchmidtFrom(b, k, s2) ==
    IF k = 2 THEN <<b[1], s2, b[3]>>
    ELSE <<b[1], s2, SubtractProjection(b[3], SubtractProjection(b[3], b[3], b[1]), s2)>>

\* The Gram-Schmidt columns 1..k of b, as the code recomputes them on every
\* pass (k is the 1-based working column; columns beyond k stay those of b).
GramSchmidt(b, k) == GramSchmidtFrom(b, k, SubtractProjection(b[2], b[2], b[1]))

\* if mu.abs() > 0.5 { col_k -= b.column(j) * mu.round() }
SizeReduceBy(b, k, j, mu) ==
    IF QLt(Half, QAbs(mu))
    THEN SetCol(b, k, QVSub(b[k], QVScale(b[j], QInt(QRound(mu)))))
    ELSE b

SizeReduceStep(b, bs, k, j) == SizeReduceBy(b, k, j, MuCoef(b[k], bs[j]))

\* for j in (0..k).rev()
SizeReduce(b, bs, k) ==
    IF k = 2 THEN SizeReduceStep(b, bs, 2, 1)
    ELSE SizeReduceStep(SizeReduceStep(b, bs, 3, 2), bs, 3, 1)

\* b*_k . b*_k >= (delta - mu^2) * b*_(k-1) . b*_(k-1)
LovaszWith(bs, k, mu) ==
    QLe(QMul(QSub(LLLDelta, QMul(mu, mu)), QVNormSq(bs[k - 1])), QVNormSq(bs[k]))

Lovasz(b, bs, k) == LovaszWith(bs, k, MuCoef(b[k], bs[k - 1]))

\* if !condition_met { swap; k = max(1, k - 1) } else { k += 1 }
SwapOrAdvance(b, bs, k) ==
    IF Lovasz(b, bs, k) THEN [b |-> b, k |-> k + 1]
    ELSE [b |-> SwapCols(b, k, k - 1), k |-> IF k - 1 > 2 THEN k - 1 ELSE 2]

LLLPass(b, bs, k) == SwapOrAdvance(SizeReduce(b, bs, k), bs, k)

\* One pass of `while k < n`; the columns and the working column are 1-based
\* here, so the loop runs while k <= 3 and a swap clamps k to at least 2.
LLLBody(b, k) == LLLPass(b, GramSchmidt(b, k), k)

RECURSIVE lll_loop(_, _)
lll_continue(r) == lll_loop(r.b, r.k)

lll_loop(b, k) == IF k > 3 THEN b ELSE lll_continue(LLLBody(b, k))

lll_reduce(b) == lll_loop(b, 2)

(***************************************************************************)
(* builder.rs: SlabBuilder::compute_geometry.                              *)
(***************************************************************************)
AuxScale == 10000

Tiny == <<1, 1000000000>>

LayersFloor(thickness, d_hkl) == QFloor(QDiv(thickness, d_hkl))

\* (target_thickness / d_hkl).round().max(1.0) as usize
AtLeastOne(r) == IF r < 1 THEN 1 ELSE r

Layers(thickness, d_hkl) == AtLeastOne(QRound(QDiv(thickness, d_hkl)))

\* let d_hkl = 1.0 / g_norm;
Spacing(g_norm) == QInv(g_norm)

\* let c_slab = normal * (slab_height + self.vacuum);
SlabC(normal, slab_height, vacuum) == QVScale(normal, QAdd(slab_height, vacuum))

\* Step 6 and the result: a', b' are the first two columns of the reduced
\* auxiliary basis (u, v, 10000 * normal) and c' is c_slab.
SlabGeometry(reduced, c_slab, d_hkl, n_layers, vacuum) ==
    [kind |-> "ok",
     basis |-> <<reduced[1], reduced[2], c_slab>>,
     d_hkl |-> d_hkl,
     n_layers |-> n_layers,
     vacuum_thickness |-> vacuum]

\* Step 5: slab_height = n_layers * d_hkl and c_slab.
GeometryOfLayers(u_cart, v_cart, normal, d_hkl, n_layers, vacuum) ==
    SlabGeometry(lll_reduce(<<u_cart, v_cart, QVScale(normal, QInt(AuxScale))>>),
                 SlabC(normal, QMul(QInt(n_layers), d_hkl), vacuum),
                 d_hkl, n_layers, vacuum)

\* Step 4: the layer count and the unit normal.
GeometryOfSpacing(u_cart, v_cart, reciprocal_n, g_norm, d_hkl, target_thickness, vacuum) ==
    GeometryOfLayers(u_cart, v_cart, QVScale(reciprocal_n, QInv(g_norm)), d_hkl,
                     Layers(target_thickness, d_hkl), vacuum)

\* if g_norm < 1e-9 { return Err }; d_hkl = 1 / g_norm
GeometryOfNorm(u_cart, v_cart, reciprocal_n, g_norm, target_thickness, vacuum) ==
    IF QLt(g_norm, Tiny) THEN [kind |-> "err", why |-> "Invalid Miller indices."]
    ELSE GeometryOfSpacing(u_cart, v_cart, reciprocal_n, g_norm, Spacing(g_norm),
                           target_thickness, vacuum)

\* Step 3: the Cartesian in-plane pair and the reciprocal normal.
GeometryOfPair(lat, hkl, uv, reciprocal_n, target_thickness, vacuum) ==
    GeometryOfNorm(to_cartesian(lat, QV(uv[1])), to_cartesian(lat, QV(uv[2])),
                   reciprocal_n, QVNorm(reciprocal_n), target_thickness, vacuum)

\* Step 2: the 2D reduction of the integer pair.
GeometryOfBasis(lat, hkl, ib, target_thickness, vacuum) ==
    IF ib.kind # "ok" THEN ib
    ELSE GeometryOfPair(lat, hkl, reduce_2d_integer(ib.u, ib.v),
                        MatVec(lat.reciprocal_matrix, QV(hkl)), target_thickness, vacuum)

compute_geometry(lat, hkl, target_thickness, vacuum) ==
    GeometryOfBasis(lat, hkl, find_primitive_in_plane_basis(hkl[1], hkl[2], hkl[3]),
                    target_thickness, vacuum)

Cubic(a) == Diag(a, a, a)

\* Bulk cells: cubic 3 A, cubic MgO (4.21 A), orthorhombic 2 x 3 x 4 A, a
\* monoclinic cell with b sheared along x, and a cell of 12000 x 12000 x 4 A.
MgOCell == Lattice(Cubic(<<421, 100>>))

OrdinaryLattices ==
    { Lattice(Cubic(QInt(3))),
      MgOCell,
      Lattice(Diag(QInt(2), QInt(3), QInt(4))),
      Lattice(<< QV(<<3, 0, 0>>), QV(<<1, 3, 0>>), QV(<<0, 0, 4>>) >>) }

HugeLattice == Lattice(Diag(QInt(12000), QInt(12000), QInt(4)))

HugeTriples == { <<0, 0, 1>>, <<0, 0, -1>> }

\* The reciprocal normal of (h,k,l) has a rational length in this lattice.
RationalNormal(lat, hkl) == QIsSquare(QVNormSq(MatVec(lat.reciprocal_matrix, QV(hkl))))

\* The squares of the components of the auxiliary column 10000 * normal stay
\* below 2^31, the range of the model's integers.
AuxInRange(lat, hkl) ==
    LET g == MatVec(lat.reciprocal_matrix, QV(hkl))
        c == QVScale(g, QDiv(QInt(AuxScale), QVNorm(g)))
        k(i) == Abs(c[i][1]) \div 1000 + 1
    IN  k(1) * k(1) + k(2) * k(2) + k(3) * k(3) < 2000

Representable(lat, hkl) ==
    hkl = Zero3 \/ (RationalNormal(lat, hkl) /\ AuxInRange(lat, hkl))

GeoCells ==
    { c \in OrdinaryLattices \X MillerTriples : Representable(c[1], c[2]) }
    \cup ({HugeLattice} \X HugeTriples)

Thicknesses == { QInt(1), QInt(10), QInt(15) }

Vacuums == { QZero, QInt(15) }

GeoInit ==
    /\ geo \in { [pc |-> "call", lat |-> c[1], hkl |-> c[2], thickness |-> t, vacuum |-> w] :
                 c \in GeoCells, t \in Thicknesses, w \in Vacuums }
    /\ basis = Idle
    /\ red = Idle
    /\ mf = Idle
    /\ pop = Idle
    /\ stack = Idle
    /\ ion = Idle
    /\ lll = Idle
    /\ det = Idle
    /\ cli = Idle

GeoCall ==
    /\ geo.pc = "call"
    /\ geo' = [pc |-> "returned", lat |-> geo.lat, hkl |-> geo.hkl,
                thickness |-> geo.thickness, vacuum |-> geo.vacuum,
                res |-> compute_geometry(geo.lat, geo.hkl, geo.thickness, geo.vacuum)]
    /\ UNCHANGED <<basis, red, mf, pop, stack, ion, lll, det, cli>>

GeoNext == GeoCall

SpecGeometry == GeoInit /\ [][GeoNext]_vars

GeoReturnedOk == geo.pc = "returned" /\ geo.res.kind = "ok"

\* |R . (h,k,l)|, taken again from the inputs of the call
GeoGNorm == QVNorm(MatVec(geo.lat.reciprocal_matrix, QV(geo.hkl)))

GeoNormal == QVScale(MatVec(geo.lat.reciprocal_matrix, QV(geo.hkl)), QInv(GeoGNorm))

\* C7: n_layers = max(1, round(target_thickness / d_hkl)), so n_layers >= 1;
\* d_hkl * |g| = 1; and |c'| = n_layers * d_hkl + vacuum.
C7_LayersSpacingHeight ==
    GeoReturnedOk =>
        LET d == geo.res.d_hkl
            n == geo.res.n_layers
            x2 == QMul(QInt(2), QDiv(geo.thickness, d))
        IN  /\ QMul(d, GeoGNorm) = QInt(1)
            /\ n >= 1
            /\ QLt(x2, QInt(2 * n + 1))
            /\ (n > 1 => QLe(QInt(2 * n - 1), x2))
            /\ QVNorm(geo.res.basis[3]) = QAdd(QMul(QInt(n), d), geo.vacuum)

\* A call with an oblique normal, several layers and a vacuum has returned.
C7_Witness ==
    /\ GeoReturnedOk
    /\ geo.hkl = <<1, 2, 2>>
    /\ geo.res.n_layers >= 2
    /\ geo.vacuum # QZero

\* The Cartesian in-plane pair handed to lll_reduce, taken again from the inputs.
GeoInPlane ==
    LET ib == find_primitive_in_plane_basis(geo.hkl[1], geo.hkl[2], geo.hkl[3])
        uv == reduce_2d_integer(ib.u, ib.v)
    IN  <<to_cartesian(geo.lat, QV(uv[1])), to_cartesian(geo.lat, QV(uv[2]))>>

QCombo(a, b, p, q) == QVAdd(QVScale(p, QInt(a)), QVScale(q, QInt(b)))

SmallCoefs == -3 .. 3

\* a' and b' are orthogonal to the normal and are a unimodular integer
\* combination of u_cart and v_cart; c' is normal * (n_layers * d_hkl + vacuum).
InPlaneReduced ==
    LET uc == GeoInPlane[1]
        vc == GeoInPlane[2]
        a == geo.res.basis[1]
        b == geo.res.basis[2]
    IN  /\ QVDot(a, GeoNormal) = QZero
        /\ QVDot(b, GeoNormal) = QZero
        /\ \E p \in SmallCoefs, q \in SmallCoefs :
              /\ a = QCombo(p, q, uc, vc)
              /\ \E r \in SmallCoefs, t \in SmallCoefs :
                    /\ b = QCombo(r, t, uc, vc)
                    /\ p * t - q * r \in {1, -1}
        /\ geo.res.basis[3] =
              QVScale(GeoNormal, QAdd(QMul(QInt(geo.res.n_layers), geo.res.d_hkl), geo.vacuum))

\* C10: in every successful compute_geometry the columns a', b' are orthogonal
\* to the normal and a unimodular integer combination of u_cart and v_cart
\* alone, and c' is untouched.
C10_InPlaneColumns == GeoReturnedOk => InPlaneReduced

(***************************************************************************)
(* structure.rs: Lattice::get_shortest_distance_vector.                    *)
(***************************************************************************)
\* d -= d.round()
WrapComponent(d) == QSub(d, QInt(QRound(d)))

WrapVector(d) == <<WrapComponent(d[1]), WrapComponent(d[2]), WrapComponent(d[3])>>

get_shortest_distance_vector(lat, f1, f2) == to_cartesian(lat, WrapVector(QVSub(f2, f1)))

(***************************************************************************)
(* connectivity.rs: the bond graph, its components and the molecule        *)
(* finder.  Atoms are numbered from 1 in the model (from 0 in the code).   *)
(***************************************************************************)
Range(seq) == { seq[i] : i \in DOMAIN seq }

MinOf(S) == CHOOSE x \in S : \A y \in S : x <= y

MaxOf(S) == CHOOSE x \in S : \A y \in S : y <= x

\* The elements of a set of integers in ascending order (sort_unstable).
RECURSIVE Ascending(_)
Ascending(S) == IF S = {} THEN <<>> ELSE <<MinOf(S)>> \o Ascending(S \ {MinOf(S)})

RECURSIVE Descending(_)
Descending(S) == IF S = {} THEN <<>> ELSE <<MaxOf(S)>> \o Descending(S \ {MaxOf(S)})

\* dist_vec.norm_squared() < cutoff_sq
Bonded(crystal, cutoff_sq, i, j) ==
    QLt(QVNormSq(get_shortest_distance_vector(crystal.lattice,
                    crystal.atoms[i].fractional_coords,
                    crystal.atoms[j].fractional_coords)), cutoff_sq)

BondsBelow(crystal, cutoff_sq) ==
    { e \in (1 .. Len(crystal.atoms)) \X (1 .. Len(crystal.atoms)) :
        e[1] < e[2] /\ Bonded(crystal, cutoff_sq, e[1], e[2]) }

\* GraphRepresentation::from_crystal: the unordered pairs closer than the
\* cutoff under the minimum-image convention.
from_crystal(crystal, cutoff) == BondsBelow(crystal, QMul(cutoff, cutoff))

Neighbors(graph, i) ==
    { e[2] : e \in { x \in graph : x[1] = i } } \cup { e[1] : e \in { x \in graph : x[2] = i } }

\* The nodes a breadth-first search from the frontier visits.
RECURSIVE Reach(_, _, _)
ReachOn(graph, next, seen) == Reach(graph, next, seen \cup next)

Reach(graph, frontier, seen) ==
    IF frontier = {} THEN seen
    ELSE ReachOn(graph, UNION { Neighbors(graph, i) : i \in frontier } \ seen, seen)

MarkNothing(visited, component) == visited

\* visited[atom_index] = true for the atoms pushed to the component
MarkVisited(visited, component) == visited \cup component

\* find_connected_components: for i in 0..node_count, a search from every
\* node not yet visited; the component is what the search reaches that was
\* not visited, sorted.
RECURSIVE ComponentsFrom(_, _, _, _)
PushComponent(graph, n, i, visited, component) ==
    (IF component = {} THEN <<>> ELSE <<Ascending(component)>>)
    \o ComponentsFrom(graph, n, i + 1, MarkVisited(visited, component))

ComponentsFrom(graph, n, i, visited) ==
    IF i > n THEN <<>>
    ELSE IF i \in visited THEN ComponentsFrom(graph, n, i + 1, visited)
    ELSE PushComponent(graph, n, i, visited, Reach(graph, {i}, {i}) \ visited)

find_connected_components(graph, n) == ComponentsFrom(graph, n, 1, {})

\* The neighbour placed at its own wrapped position, without the
\* minimum-image step from the current atom.
NeighborPosRaw(crystal, cur, nb, current_pos) ==
    to_cartesian(crystal.lattice, crystal.atoms[nb].fractional_coords)

\* let neighbor_pos = current_pos + shortest_vec;
NeighborPos(crystal, cur, nb, current_pos) ==
    QVAdd(current_pos, get_shortest_distance_vector(crystal.lattice,
                           crystal.atoms[cur].fractional_coords,
                           crystal.atoms[nb].fractional_coords))

\* The neighbours of `cur` in the order graph.neighbors() yields them
\* (petgraph walks a node's edge lists newest edge first; edges were added
\* for ascending (i, j)), each given a position the first time it is met.
\* pos[n].from records the atom the search reached n from; the code keeps
\* only the position.
RECURSIVE PlaceNeighbors(_, _, _, _, _)
PlaceNeighbors(crystal, cur, nbrs, pos, queue) ==
    IF nbrs = <<>> THEN [pos |-> pos, queue |-> queue]
    ELSE IF Head(nbrs) \in DOMAIN pos
    THEN PlaceNeighbors(crystal, cur, Tail(nbrs), pos, queue)
    ELSE PlaceNeighbors(crystal, cur, Tail(nbrs),
             pos @@ (Head(nbrs) :> [at |-> NeighborPos(crystal, cur, Head(nbrs), pos[cur].at),
                                    from |-> cur]),
             Append(queue, Head(nbrs)))

\* while let Some(current_idx) = queue.pop_front()
RECURSIVE Unwrap(_, _, _, _)
UnwrapOn(crystal, graph, r) == Unwrap(crystal, graph, r.pos, r.queue)

Unwrap(crystal, graph, pos, queue) ==
    IF queue = <<>> THEN pos
    ELSE UnwrapOn(crystal, graph,
                  PlaceNeighbors(crystal, Head(queue),
                                 Descending(Neighbors(graph, Head(queue))), pos, Tail(queue)))

RECURSIVE QVSum(_)
QVSum(seq) == IF seq = <<>> THEN QVZero ELSE QVAdd(Head(seq), QVSum(Tail(seq)))

QVMean(seq) == QVScale(QVSum(seq), <<1, Len(seq)>>)

QVFloor(a) == QV(<<QFloor(a[1]), QFloor(a[2]), QFloor(a[3])>>)

\* Step 3: the anchor indices[0] at its Cartesian position, then the search.
Anchor(crystal, start_index) ==
    start_index :> [at |-> to_cartesian(crystal.lattice,
                                        crystal.atoms[start_index].fractional_coords),
                    from |-> start_index]

\* The indices of the component that received a position, in order.
Placed(indices, reassembled) == SelectSeq(indices, LAMBDA i : i \in DOMAIN reassembled)

\* Step 4: the centre of mass of the unwrapped positions.
UnwrappedCom(placed, reassembled) ==
    QVMean([k \in 1 .. Len(placed) |-> reassembled[placed[k]].at])

ShiftCartToOrigin(lat, com) == QVSub(QVZero, com)

\* Step 5: shift_cart = to_cartesian(-floor(to_fractional(com))).
ShiftCart(lat, com) == to_cartesian(lat, QVSub(QVZero, QVFloor(to_fractional(lat, com))))

FinalPositions(placed, reassembled, shift_cart) ==
    [k \in 1 .. Len(placed) |-> QVAdd(reassembled[placed[k]].at, shift_cart)]

Assembled(crystal, placed, reassembled, final) ==
    [atoms |-> [k \in 1 .. Len(placed) |-> <<crystal.atoms[placed[k]].element, final[k]>>],
     center_of_mass |-> QVMean(final),
     from |-> [k \in 1 .. Len(placed) |-> reassembled[placed[k]].from]]

Shifted(crystal, placed, reassembled) ==
    Assembled(crystal, placed, reassembled,
              FinalPositions(placed, reassembled,
                             ShiftCart(crystal.lattice, UnwrappedCom(placed, reassembled))))

Unwrapped(crystal, indices, reassembled) ==
    Shifted(crystal, Placed(indices, reassembled), reassembled)

\* Steps 3-5 of find_molecules_with_indices for one component.
Reassemble(crystal, graph, indices) ==
    Unwrapped(crystal, indices,
              Unwrap(crystal, graph, Anchor(crystal, indices[1]), <<indices[1]>>))

\* A Molecule as the code stores it: the (element, position) pairs and the
\* centre of mass.
Molecule(m) == [atoms |-> m.atoms, center_of_mass |-> m.center_of_mass]

\* The molecules and the assigned indices; for reference also the components
\* the molecules were built from and, per molecule atom, the atom the
\* unwrapping search reached it from.
FinderResult(components, built) ==
    [molecules |-> [c \in 1 .. Len(components) |-> Molecule(built[c])],
     assigned |-> UNION { Range(components[c]) : c \in 1 .. Len(components) },
     components |-> components,
     from |-> [c \in 1 .. Len(components) |-> built[c].from]]

MoleculesOfComponents(crystal, graph, components) ==
    FinderResult(components,
                 [c \in 1 .. Len(components) |-> Reassemble(crystal, graph, components[c])])

MoleculesOfGraph(crystal, graph) ==
    MoleculesOfComponents(crystal, graph,
                          find_connected_components(graph, Len(crystal.atoms)))

find_molecules_with_indices(crystal, cutoff) ==
    IF crystal.atoms = <<>>
    THEN [molecules |-> <<>>, assigned |-> {}, components |-> <<>>, from |-> <<>>]
    ELSE MoleculesOfGraph(crystal, from_crystal(crystal, cutoff))

find_molecules(crystal, cutoff) == find_molecules_with_indices(crystal, cutoff).molecules

GridDen == 4        \* atoms of the finder's crystals sit at x = i/GridDen
MaxAtoms == 3       \* atoms of the finder's crystals

Unknown == "Unknown"

Atom(el, f, tag) == [element |-> el, fractional_coords |-> f, component_type |-> tag]

\* A 3 x 6 x 6 A cell with the atoms on a row along x.
ChainLattice == Lattice(Diag(QInt(3), QInt(6), QInt(6)))

ChainSites == { <<Q(x, GridDen), QZero, QZero>> : x \in 0 .. GridDen - 1 }

ChainCrystals ==
    { [lattice |-> ChainLattice,
       atoms |-> [i \in DOMAIN sites |-> Atom("C", sites[i], Unknown)]] :
      sites \in UNION { [1 .. k -> ChainSites] : k \in 0 .. MaxAtoms } }

Cutoffs == { QInt(1), QInt(2) }

MolInit ==
    /\ mf \in { [pc |-> "call", crystal |-> c, cutoff |-> k] :
                c \in ChainCrystals,
                k \in Cutoffs }
    /\ basis = Idle
    /\ red = Idle
    /\ geo = Idle
    /\ pop = Idle
    /\ stack = Idle
    /\ ion = Idle
    /\ lll = Idle
    /\ det = Idle
    /\ cli = Idle

MolCall ==
    /\ mf.pc = "call"
    /\ mf' = [pc |-> "returned", crystal |-> mf.crystal, cutoff |-> mf.cutoff,
              res |-> find_molecules_with_indices(mf.crystal, mf.cutoff)]
    /\ UNCHANGED <<basis, red, geo, pop, stack, ion, lll, det, cli>>

MolNext == MolCall

SpecMolecules == MolInit /\ [][MolNext]_vars

MolReturned == mf.pc = "returned"

AtomIndices == 1 .. Len(mf.crystal.atoms)

\* C5: the components of the returned molecules partition the atom indices,
\* each molecule holds one position per atom of its component, and the
\* assigned-index set is the set of all atom indices.
C5_MoleculesPartitionAtoms ==
    MolReturned =>
        LET comps == mf.res.components
            mols == mf.res.molecules
        IN  /\ Len(mols) = Len(comps)
            /\ \A i \in AtomIndices :
                  Cardinality({ c \in DOMAIN comps : i \in Range(comps[c]) }) = 1
            /\ \A c \in DOMAIN comps :
                  /\ Range(comps[c]) \subseteq AtomIndices
                  /\ Len(mols[c].atoms) = Len(comps[c])
                  /\ Cardinality(Range(comps[c])) = Len(comps[c])
            /\ mf.res.assigned = AtomIndices

\* Three atoms were split into a bonded pair and an atom with no bond.
C5_Witness ==
    /\ MolReturned
    /\ Len(mf.crystal.atoms) = 3
    /\ Len(mf.res.molecules) = 2
    /\ \E c \in DOMAIN mf.res.components : Len(mf.res.components[c]) = 1

MolGraph == from_crystal(mf.crystal, mf.cutoff)

\* The stored position of atom i of the crystal, in the molecule c holding it.
StoredPos(c, i) ==
    LET k == CHOOSE k \in DOMAIN mf.res.components[c] : mf.res.components[c][k] = i
    IN  mf.res.molecules[c].atoms[k][2]

Closer(p, q, cutoff) == QLt(QVNormSq(QVSub(p, q)), QMul(cutoff, cutoff))

LayerEpsilon == <<1, 1000>>

\* if cell_height_ang < 1e-9
FlatCell == <<1, 1000000000>>

QMinOf(S) == CHOOSE x \in S : \A y \in S : QLe(x, y)

QMaxOf(S) == CHOOSE x \in S : \A y \in S : QLe(y, x)

\* Vector3::normalize on a vector of rational length.
Normalize(v) == QVScale(v, QInv(QVNorm(v)))

\* Matrix3::try_inverse: None for a singular matrix, else the rows of m^-1.
try_inverse(m) == IF Det(m) = QZero THEN [kind |-> "None"]
                  ELSE [kind |-> "Some", rows |-> InverseRows(m)]

\* The shifts (i, j, k) of (-repeats..=repeats)^3 in the order of the nested
\* flat_map: i outermost, k innermost.
range_iter(repeats) ==
    LET w == 2 * repeats + 1
    IN  [c \in 1 .. w * w * w |->
            << ((c - 1) \div (w * w)) - repeats,
               (((c - 1) \div w) % w) - repeats,
               ((c - 1) % w) - repeats >>]

InWindowNoUpper(layer_val, min_idx, max_idx) == QLe(min_idx, layer_val)

\* layer_val >= min_idx && layer_val < max_idx
InWindow(layer_val, min_idx, max_idx) == QLe(min_idx, layer_val) /\ QLt(layer_val, max_idx)

\* The concatenation of seqs[lo], ..., seqs[hi].
RECURSIVE FlattenRange(_, _, _)
FlattenRange(seqs, lo, hi) ==
    IF lo > hi THEN <<>>
    ELSE IF lo = hi THEN seqs[lo]
    ELSE LET mid == (lo + hi) \div 2
         IN  FlattenRange(seqs, lo, mid) \o FlattenRange(seqs, mid + 1, hi)

Flatten(seqs) == FlattenRange(seqs, 1, Len(seqs))

\* A populator that tests every atom of every molecule image on its own.
MolecularModePerAtom(shift_carts, molecules, slab_normal, d_hkl, min_idx, max_idx) ==
    LET m == Len(molecules)
        images == Flatten([c \in 1 .. Len(shift_carts) * m |->
                      LET mol == molecules[((c - 1) % m) + 1]
                      IN  [a \in 1 .. Len(mol.atoms) |->
                              [element |-> mol.atoms[a][1],
                               pos |-> QVAdd(mol.atoms[a][2], shift_carts[((c - 1) \div m) + 1]),
                               component_type |-> Unknown]]])
    IN  SelectSeq(images, LAMBDA a :
            InWindow(QDiv(QVDot(a.pos, slab_normal), d_hkl), min_idx, max_idx))

\* Molecular mode: a molecule whose shifted centre of mass is in the window
\* contributes all its atoms, tagged Unknown.
MolecularMode(shift_carts, molecules, slab_normal, d_hkl, min_idx, max_idx) ==
    LET m == Len(molecules)
        pairs == [c \in 1 .. Len(shift_carts) * m |-> <<((c - 1) \div m) + 1, ((c - 1) % m) + 1>>]
        kept == SelectSeq(pairs, LAMBDA p :
                    LET shifted_com == QVAdd(molecules[p[2]].center_of_mass, shift_carts[p[1]])
                        z_ang == QVDot(shifted_com, slab_normal)
                    IN  InWindow(QDiv(z_ang, d_hkl), min_idx, max_idx))
    IN  Flatten([n \in 1 .. Len(kept) |->
            LET mol == molecules[kept[n][2]]
            IN  [a \in 1 .. Len(mol.atoms) |->
                    [element |-> mol.atoms[a][1],
                     pos |-> QVAdd(mol.atoms[a][2], shift_carts[kept[n][1]]),
                     component_type |-> Unknown]]])

\* An atomic mode that returns every atom with the default tag.
AtomicModeUntagged(shift_carts, crystal, slab_normal, d_hkl, min_idx, max_idx) ==
    LET m == Len(crystal.atoms)
        images == [c \in 1 .. Len(shift_carts) * m |->
                      LET atom == crystal.atoms[((c - 1) % m) + 1]
                      IN  [element |-> atom.element,
                           pos |-> QVAdd(to_cartesian(crystal.lattice, atom.fractional_coords),
                                         shift_carts[((c - 1) \div m) + 1]),
                           component_type |-> Unknown]]
    IN  SelectSeq(images, LAMBDA a :
            InWindow(QDiv(QVDot(a.pos, slab_normal), d_hkl), min_idx, max_idx))

\* Atomic mode: every periodic image of every bulk atom that is in the window.
AtomicMode(shift_carts, crystal, slab_normal, d_hkl, min_idx, max_idx) ==
    LET m == Len(crystal.atoms)
        images == [c \in 1 .. Len(shift_carts) * m |->
                      LET atom == crystal.atoms[((c - 1) % m) + 1]
                      IN  [element |-> atom.element,
                           pos |-> QVAdd(to_cartesian(crystal.lattice, atom.fractional_coords),
                                         shift_carts[((c - 1) \div m) + 1]),
                           component_type |-> atom.component_type]]
    IN  SelectSeq(images, LAMBDA a :
            InWindow(QDiv(QVDot(a.pos, slab_normal), d_hkl), min_idx, max_idx))

\* Step 3: centre the material in the box and express it in the slab basis.
CentreSlab(final_atoms, slab_basis, slab_normal) ==
    LET zs == { QVDot(final_atoms[n].pos, slab_normal) : n \in DOMAIN final_atoms }
        min_z == QMinOf(zs)
        max_z == QMaxOf(zs)
        current_material_thickness == QSub(max_z, min_z)
        total_box_height == QVNorm(slab_basis[3])
        target_z_start == QMul(QSub(total_box_height, current_material_thickness), Half)
        shift_val == QSub(target_z_start, min_z)
        shift_vec == QVScale(slab_normal, shift_val)
        slab_basis_inv == try_inverse(slab_basis)
    IN  IF slab_basis_inv.kind = "None" THEN [kind |-> "err", why |-> "singular"]
        ELSE [kind |-> "ok",
              atoms |-> [n \in DOMAIN final_atoms |->
                            Atom(final_atoms[n].element,
                                 TransposeApply(slab_basis_inv.rows,
                                                QVAdd(final_atoms[n].pos, shift_vec)),
                                 final_atoms[n].component_type)]]

populate(crystal, geometry, molecules, offset_z) ==
    LET slab_normal == Normalize(geometry.basis[3])
        offset_idx == QDiv(offset_z, geometry.d_hkl)
        min_idx == QSub(offset_idx, LayerEpsilon)
        max_idx == QSub(QAdd(offset_idx, QInt(geometry.n_layers)), LayerEpsilon)
        proj_a == QAbs(QVDot(crystal.lattice.matrix[1], slab_normal))
        proj_b == QAbs(QVDot(crystal.lattice.matrix[2], slab_normal))
        proj_c == QAbs(QVDot(crystal.lattice.matrix[3], slab_normal))
        cell_height_ang == QMax(QMax(proj_a, proj_b), proj_c)
    IN  IF QLt(cell_height_ang, FlatCell) THEN [kind |-> "err", why |-> "degenerate"]
        ELSE
        LET total_slab_height == QMul(QInt(geometry.n_layers), geometry.d_hkl)
            repeats == QCeil(QDiv(total_slab_height, cell_height_ang)) + 3
            shifts == range_iter(repeats)
            shift_carts == [c \in DOMAIN shifts |-> to_cartesian(crystal.lattice, QV(shifts[c]))]
            final_atoms ==
                IF molecules # <<>>
                THEN MolecularMode(shift_carts, molecules, slab_normal,
                                   geometry.d_hkl, min_idx, max_idx)
                ELSE AtomicMode(shift_carts, crystal, slab_normal,
                                geometry.d_hkl, min_idx, max_idx)
        IN  IF final_atoms = <<>> THEN [kind |-> "err", why |-> "empty"]
            ELSE CentreSlab(final_atoms, geometry.basis, slab_normal)

(***************************************************************************)
(* lib.rs: generate_surface, phases 1 (geometry) and 3 (population), on    *)
(* the molecules main.rs passes in.                                        *)
(***************************************************************************)
\* MoleculeFinder::new(2.0)
BondCutoff == <<2, 1>>

At(x, y, z) == <<x, y, z>>

\* Conventional rock-salt cell of MgO, a = 4.21 A: 4 Mg and 4 O.
MgOCrystal ==
    [lattice |-> MgOCell,
     atoms |-> << Atom("Mg", At(QZero, QZero, QZero), Unknown),
                  Atom("Mg", At(QZero, Half, Half), Unknown),
                  Atom("Mg", At(Half, QZero, Half), Unknown),
                  Atom("Mg", At(Half, Half, QZero), Unknown),
                  Atom("O", At(Half, QZero, QZero), Unknown),
                  Atom("O", At(QZero, Half, QZero), Unknown),
                  Atom("O", At(QZero, QZero, Half), Unknown),
                  Atom("O", At(Half, Half, Half), Unknown) >>]

\* One atom in a cubic 3 A cell.
SimpleCubic ==
    [lattice |-> Lattice(Cubic(QInt(3))),
     atoms |-> << Atom("Cu", At(QZero, QZero, QZero), Unknown) >>]

\* A diatomic molecule with a 1.6 A bond along x in a cubic 4 A cell.
DimerCrystal ==
    [lattice |-> Lattice(Cubic(QInt(4))),
     atoms |-> << Atom("N", At(QZero, QZero, QZero), Unknown),
                  Atom("N", At(<<2, 5>>, QZero, QZero), Unknown) >>]

\* A tagged bulk: a metal node and a linker atom 1.6 A apart in a cubic 4 A cell.
TaggedCrystal ==
    [lattice |-> Lattice(Cubic(QInt(4))),
     atoms |-> << Atom("Zn", At(QZero, QZero, QZero), "MetalNode"),
                  Atom("C", At(<<2, 5>>, QZero, QZero), "OrganicLinker") >>]

\* One atom in the 12000 x 12000 x 4 A cell.
HugeCrystal ==
    [lattice |-> HugeLattice,
     atoms |-> << Atom("C", At(QZero, QZero, QZero), Unknown) >>]

Run(crystal, hkl, thickness, vacuum, offset, with_molecules) ==
    [pc |-> "call", crystal |-> crystal, miller_indices |-> hkl, thickness |-> thickness,
     vacuum |-> vacuum, offset |-> offset, with_molecules |-> with_molecules]

MgORun(with_molecules) == Run(MgOCrystal, <<1, 0, 0>>, QInt(15), QInt(15), QZero, with_molecules)

SurfaceRuns ==
    { Run(c, hkl, QInt(t), QInt(v), o, m) :
        c \in { SimpleCubic, DimerCrystal },
        hkl \in { <<1, 0, 0>>, <<3, 0, 0>>, <<1, 2, 2>> },
        t \in { 1, 5 }, v \in { 0, 15 }, o \in { QZero, Half }, m \in BOOLEAN }
    \cup { MgORun(m) : m \in BOOLEAN }
    \cup { Run(HugeCrystal, <<0, 0, 1>>, QInt(1), QZero, QZero, FALSE) }
    \cup { Run(TaggedCrystal, hkl, QInt(1), QZero, QZero, m) :
             hkl \in { <<1, 0, 0>>, <<1, 2, 2>> }, m \in BOOLEAN }

GenInit ==
    /\ pop \in SurfaceRuns
    /\ basis = Idle
    /\ red = Idle
    /\ geo = Idle
    /\ mf = Idle
    /\ stack = Idle
    /\ ion = Idle
    /\ lll = Idle
    /\ det = Idle
    /\ cli = Idle

\* The run after phase 1, with the geometry or its error.
WithGeometry(run, geometry) ==
    [pc |-> IF geometry.kind = "ok" THEN "populate" ELSE "failed",
     crystal |-> run.crystal, miller_indices |-> run.miller_indices,
     thickness |-> run.thickness, vacuum |-> run.vacuum,
     offset |-> run.offset, with_molecules |-> run.with_molecules,
     geometry |-> geometry]

GenGeometry ==
    /\ pop.pc = "call"
    /\ pop' = WithGeometry(pop, compute_geometry(pop.crystal.lattice, pop.miller_indices,
                                                 pop.thickness, pop.vacuum))
    /\ UNCHANGED <<basis, red, geo, mf, stack, ion, lll, det, cli>>

\* The run after phase 3, with the slab atoms or populate's error.
WithSlab(run, molecules, slab) ==
    [pc |-> IF slab.kind = "ok" THEN "done" ELSE "failed",
     crystal |-> run.crystal, miller_indices |-> run.miller_indices,
     thickness |-> run.thickness, vacuum |-> run.vacuum,
     offset |-> run.offset, with_molecules |-> run.with_molecules,
     geometry |-> run.geometry, molecules |-> molecules, slab |-> slab]

Populate(run, molecules) ==
    WithSlab(run, molecules, populate(run.crystal, run.geometry, molecules, run.offset))

GenPopulate ==
    /\ pop.pc = "populate"
    /\ pop' = Populate(pop, IF pop.with_molecules
                            THEN find_molecules(pop.crystal, BondCutoff) ELSE <<>>)
    /\ UNCHANGED <<basis, red, geo, mf, stack, ion, lll, det, cli>>

GenNext == GenGeometry \/ GenPopulate

SpecPopulate == GenInit /\ [][GenNext]_vars

Populated == pop.pc = "done"

CountOf(el) == Cardinality({ n \in DOMAIN pop.slab.atoms : pop.slab.atoms[n].element = el })

IsMgORun ==
    /\ pop.crystal = MgOCrystal /\ pop.miller_indices = <<1, 0, 0>>
    /\ pop.thickness = QInt(15) /\ pop.vacuum = QInt(15) /\ pop.offset = QZero

\* C3: the MgO (1,0,0) slab of thickness 15 and vacuum 15 at offset 0 has
\* n_layers = 7 and exactly 28 atoms, 14 Mg and 14 O.
C3_MgOSlab ==
    (Populated /\ IsMgORun) =>
        /\ pop.geometry.n_layers = 7
        /\ Len(pop.slab.atoms) = 28
        /\ CountOf("Mg") = 14
        /\ CountOf("O") = 14

SlabNormal == Normalize(pop.geometry.basis[3])

BoxHeight == QVNorm(pop.geometry.basis[3])

\* The projections of the returned atoms on the slab normal.
Projections ==
    { QVDot(MatVec(pop.geometry.basis, pop.slab.atoms[n].fractional_coords), SlabNormal) :
      n \in DOMAIN pop.slab.atoms }

MaterialSpan == QSub(QMaxOf(Projections), QMinOf(Projections))

NominalHeight == QMul(QInt(pop.geometry.n_layers), pop.geometry.d_hkl)

SpanTolerance == QMul(LayerEpsilon, pop.geometry.d_hkl)

WithinBox == \A z \in Projections : QLe(QZero, z) /\ QLe(z, BoxHeight)

\* C4: after a successful populate, in atomic and in molecular mode, every
\* atom's projection on the slab normal is in [0, |c'|] and the material
\* span is at most n_layers * d_hkl plus a tolerance.
C4_SlabWithinBox ==
    Populated =>
        /\ WithinBox
        /\ QLe(MaterialSpan, QAdd(NominalHeight, SpanTolerance))

\* The offsets of the molecules' atoms from their centre of mass along the
\* slab normal.
Deviations ==
    UNION { { QVDot(QVSub(pop.molecules[m].atoms[a][2], pop.molecules[m].center_of_mass),
                    SlabNormal) : a \in DOMAIN pop.molecules[m].atoms } :
            m \in DOMAIN pop.molecules }

\* C4 as amended: the material is centred in the box; in atomic mode every
\* projection is in [0, |c'|] and the span is at most n_layers * d_hkl plus
\* the tolerance; in molecular mode the span is bounded by n_layers * d_hkl
\* plus the extent of the molecules about their centres of mass, and the
\* projections are in [0, |c'|] when the span does not exceed |c'|.
C4_AtomicWithinBox ==
    Populated =>
        /\ QMinOf(Projections) = QMul(QSub(BoxHeight, MaterialSpan), Half)
        /\ (pop.molecules = <<>>) =>
              /\ WithinBox
              /\ QLe(MaterialSpan, QAdd(NominalHeight, SpanTolerance))
        /\ (pop.molecules # <<>>) =>
              /\ QLe(MaterialSpan,
                     QAdd(QAdd(NominalHeight, QSub(QMaxOf(Deviations), QMinOf(Deviations))),
                          SpanTolerance))
              /\ QLe(MaterialSpan, BoxHeight) => WithinBox

\* An atomic-mode slab of two or more layers fills a box without vacuum.
C4_Witness ==
    /\ Populated
    /\ pop.molecules = <<>>
    /\ pop.geometry.n_layers >= 2
    /\ pop.vacuum = QZero
    /\ QLt(QZero, MaterialSpan)

(***************************************************************************)
(* integer_basis.rs: find_stacking_vector.                                 *)
(***************************************************************************)
StackMiller == 10   \* Miller indices given to find_stacking_vector: -StackMiller..StackMiller

SearchLimit == 10   \* for x in -10..=10

StackingHitAbs(n, w, target) == Abs(Dot(n, w)) = target

\* if n.dot(&w) == target
StackingHit(n, w, target) == Dot(n, w) = target

NotFound == [found |-> FALSE]

\* for z in -10..=10 { if n.dot(&w) == target { return w; } }
RECURSIVE ScanZ(_, _, _, _, _)
ScanZ(n, target, x, y, z) ==
    IF z > SearchLimit THEN NotFound
    ELSE IF StackingHit(n, <<x, y, z>>, target) THEN [found |-> TRUE, w |-> <<x, y, z>>]
    ELSE ScanZ(n, target, x, y, z + 1)

\* for y in -10..=10
RECURSIVE ScanY(_, _, _, _)
ScanYNext(n, target, x, y, r) == IF r.found THEN r ELSE ScanY(n, target, x, y + 1)

ScanY(n, target, x, y) ==
    IF y > SearchLimit THEN NotFound
    ELSE ScanYNext(n, target, x, y, ScanZ(n, target, x, y, -SearchLimit))

\* for x in -10..=10
RECURSIVE ScanX(_, _, _)
ScanXNext(n, target, x, r) == IF r.found THEN r ELSE ScanX(n, target, x + 1)

ScanX(n, target, x) ==
    IF x > SearchLimit THEN NotFound
    ELSE ScanXNext(n, target, x, ScanY(n, target, x, -SearchLimit))

\* if h != 0 { (1,0,0) } else if k != 0 { (0,1,0) } else { (0,0,1) }
UnitFallback(h, k, l) ==
    IF h # 0 THEN <<1, 0, 0>> ELSE IF k # 0 THEN <<0, 1, 0>> ELSE <<0, 0, 1>>

\* The returned vector; `fallback` records which return statement produced it.
StackingResult(h, k, l, r) ==
    IF r.found THEN [w |-> r.w, fallback |-> FALSE]
    ELSE [w |-> UnitFallback(h, k, l), fallback |-> TRUE]

find_stacking_vector(h, k, l) ==
    StackingResult(h, k, l, ScanX(<<h, k, l>>, gcd(gcd(h, k), l), -SearchLimit))

StackRange == -StackMiller .. StackMiller

StackTriples == StackRange \X StackRange \X StackRange

StackInit ==
    /\ stack \in { [pc |-> "call", hkl |-> n] : n \in StackTriples }
    /\ basis = Idle
    /\ red = Idle
    /\ geo = Idle
    /\ mf = Idle
    /\ pop = Idle
    /\ ion = Idle
    /\ lll = Idle
    /\ det = Idle
    /\ cli = Idle

StackCall ==
    /\ stack.pc = "call"
    /\ stack' = [pc |-> "returned", hkl |-> stack.hkl,
                 res |-> find_stacking_vector(stack.hkl[1], stack.hkl[2], stack.hkl[3])]
    /\ UNCHANGED <<basis, red, geo, mf, pop, ion, lll, det, cli>>

StackNext == StackCall

SpecStacking == StackInit /\ [][StackNext]_vars

StackReturned == stack.pc = "returned" /\ stack.hkl # Zero3

SearchRange == -SearchLimit .. SearchLimit

\* v is visited by the three loops before w.
VisitedBefore(v, w) ==
    \/ v[1] < w[1]
    \/ v[1] = w[1] /\ v[2] < w[2]
    \/ v[1] = w[1] /\ v[2] = w[2] /\ v[3] < w[3]

NoEarlierSolution(n, w) ==
    \A x \in -SearchLimit .. w[1] : \A y \in SearchRange : \A z \in SearchRange :
        VisitedBefore(<<x, y, z>>, w) => Dot(n, <<x, y, z>>) # Gcd3(n)

\* C11: for every (h,k,l) other than (0,0,0) within the Miller range the
\* call returns from inside the search (the unit-vector fallback is not
\* taken) a vector w with components in -10..10 and n.w = gcd(h,k,l), and no
\* vector earlier in the (x, y, z) lexicographic order satisfies n.w = gcd.
C11_FirstStackingVector ==
    StackReturned =>
        /\ ~stack.res.fallback
        /\ stack.res.w \in SearchRange \X SearchRange \X SearchRange
        /\ Dot(stack.hkl, stack.res.w) = Gcd3(stack.hkl)
        /\ NoEarlierSolution(stack.hkl, stack.res.w)

\* The call has returned for a triple whose first solution is not in the
\* first x-slab of the search.
C11_Witness ==
    /\ StackReturned
    /\ stack.hkl = <<10, 7, 0>>
    /\ stack.res.w[1] > -SearchLimit
    /\ ~stack.res.fallback

(***************************************************************************)
(* structure.rs: the interval of the wrapped fractional difference.        *)
(***************************************************************************)
\* The wrapped difference get_shortest_distance_vector forms for the pair
\* (i, j) that from_crystal hands it: d = f_j - f_i, d -= d.round().
WrappedDifference(crystal, i, j) ==
    WrapVector(QVSub(crystal.atoms[j].fractional_coords, crystal.atoms[i].fractional_coords))

InHalfOpenUpper(x) == QLt(QNeg(Half), x) /\ QLe(x, Half)

\* C12: every component of the wrapped fractional difference of every pair
\* of atoms the finder compared lies in (-1/2, 1/2]; a raw difference of
\* exactly +1/2 stays +1/2.
C12_WrappedInHalfOpenInterval ==
    MolReturned =>
        \A i \in AtomIndices : \A j \in AtomIndices :
            i < j => \A c \in 1 .. 3 : InHalfOpenUpper(WrappedDifference(mf.crystal, i, j)[c])

(***************************************************************************)
(* ionic.rs: IonicReconstructor::stabilize.  Atoms are numbered from 1.    *)
(***************************************************************************)
NoMode == "None"

DipoleCorrection == "DipoleCorrection"

\* let tolerance = 0.25;
PlaneTolerance == <<1, 4>>

\* if dipole_z.abs() > 0.5
DipoleThreshold == <<1, 2>>

\* guess_charges: the nominal charge of an element.
guess_charge(element) ==
    CASE element \in {"Li", "Na", "K", "H"} -> 1
      [] element \in {"Mg", "Ca", "Zn", "Fe"} -> 2
      [] element = "Al" -> 3
      [] element \in {"F", "Cl", "Br", "I"} -> -1
      [] element \in {"O", "S"} -> -2
      [] element = "N" -> -3
      [] OTHER -> 0

\* lattice.to_cartesian(&atoms[i].fractional_coords)
CartOf(lattice, atoms, i) == to_cartesian(lattice, atoms[i].fractional_coords)

\* The Cartesian z of the atoms lo..hi, in index order.
RECURSIVE CartZRange(_, _, _, _)
CartZRange(lattice, atoms, lo, hi) ==
    IF lo > hi THEN <<>>
    ELSE IF lo = hi THEN <<CartOf(lattice, atoms, lo)[3]>>
    ELSE CartZRange(lattice, atoms, lo, (lo + hi) \div 2)
         \o CartZRange(lattice, atoms, (lo + hi) \div 2 + 1, hi)

CartZ(lattice, atoms) == CartZRange(lattice, atoms, 1, Len(atoms))

\* The distinct values of a set of z in ascending order.
RECURSIVE AscendingZ(_)
AscendingZ(Z) == IF Z = {} THEN <<>> ELSE <<QMinOf(Z)>> \o AscendingZ(Z \ {QMinOf(Z)})

ZLevels(zs) == AscendingZ(Range(zs))

\* indices.sort_by(z_i.partial_cmp(z_j)): a stable sort, so the result lists
\* the atoms by ascending z and the atoms of equal z in index order.
RECURSIVE SortedFrom(_, _, _)
SortedFrom(zs, levels, k) ==
    IF k > Len(levels) THEN <<>>
    ELSE SelectSeq([i \in DOMAIN zs |-> i], LAMBDA i : zs[i] = levels[k])
         \o SortedFrom(zs, levels, k + 1)

SortedIndices(zs) == SortedFrom(zs, ZLevels(zs), 1)

\* if (z - current_z).abs() < tolerance { current_plane.push(idx) }
JoinsPlane(z, current_z) == QLt(QAbs(QSub(z, current_z)), PlaneTolerance)

\* for &idx in indices.iter().skip(1): the z values at which the loop opens
\* a new plane (current_z), the first atom's z included.  Atoms of equal z
\* take the same branch, so the walk is over the distinct z values.
RECURSIVE PlaneStartsFrom(_, _, _)
PlaneStartsFrom(levels, k, current_z) ==
    IF k > Len(levels) THEN <<>>
    ELSE IF JoinsPlane(levels[k], current_z) THEN PlaneStartsFrom(levels, k + 1, current_z)
    ELSE <<levels[k]>> \o PlaneStartsFrom(levels, k + 1, levels[k])

PlaneStarts(levels) == <<levels[1]>> \o PlaneStartsFrom(levels, 2, levels[1])

\* Plane p holds the sorted atoms from the one that opened it up to the one
\* that opens the next plane.
InPlane(z, starts, p) ==
    /\ QLe(starts[p], z)
    /\ p < Len(starts) => QLt(z, starts[p + 1])

RECURSIVE PlanesFrom(_, _, _, _)
PlanesFrom(zs, indices, starts, p) ==
    IF p > Len(starts) THEN <<>>
    ELSE <<SelectSeq(indices, LAMBDA i : InPlane(zs[i], starts, p))>>
         \o PlanesFrom(zs, indices, starts, p + 1)

PlanesOf(zs, indices) == PlanesFrom(zs, indices, PlaneStarts(ZLevels(zs)), 1)

\* The sum of two partial sums; a zero partial sum is dropped unadded.
QSumOfHalves(l, r) == IF l = QZero THEN r ELSE IF r = QZero THEN l ELSE QAdd(l, r)

QVSumOfHalves(l, r) == IF l = QVZero THEN r ELSE IF r = QVZero THEN l ELSE QVAdd(l, r)

\* dipole_z = sum of q * z over the atoms lo..hi.
RECURSIVE DipoleRange(_, _, _, _)
DipoleRange(atoms, zs, lo, hi) ==
    IF lo > hi THEN QZero
    ELSE IF lo = hi THEN QMul(QInt(guess_charge(atoms[lo].element)), zs[lo])
    ELSE QSumOfHalves(DipoleRange(atoms, zs, lo, (lo + hi) \div 2),
                      DipoleRange(atoms, zs, (lo + hi) \div 2 + 1, hi))

DipoleZ(lattice, atoms) == DipoleRange(atoms, CartZ(lattice, atoms), 1, Len(atoms))

\* for &i in indices { sum += to_cartesian(atoms[i]) } over indices[lo..hi]
RECURSIVE CartSumRange(_, _, _, _, _)
CartSumRange(lattice, atoms, indices, lo, hi) ==
    IF lo > hi THEN QVZero
    ELSE IF lo = hi THEN CartOf(lattice, atoms, indices[lo])
    ELSE QVSumOfHalves(CartSumRange(lattice, atoms, indices, lo, (lo + hi) \div 2),
                       CartSumRange(lattice, atoms, indices, (lo + hi) \div 2 + 1, hi))

\* average_pos: the mean Cartesian position of the atoms of a plane.
average_pos(lattice, indices, atoms) ==
    QVScale(CartSumRange(lattice, atoms, indices, 1, Len(indices)), <<1, Len(indices)>>)

\* let ghost_center = average_pos(bottom_plane) + v_down;
GhostCenter(bottom_avg, v_down) == QVAdd(bottom_avg, v_down)

\* new_cart = ghost_center + (current_cart - top_z_avg)
NewCart(lattice, atoms, atom_idx, bottom_plane, top_z_avg, v_down) ==
    QVAdd(GhostCenter(average_pos(lattice, bottom_plane, atoms), v_down),
          QVSub(CartOf(lattice, atoms, atom_idx), top_z_avg))

MoveAtomAndTag(lattice, atoms, atom_idx, new_cart) ==
    [atoms EXCEPT ![atom_idx] = Atom(atoms[atom_idx].element,
                                     to_fractional(lattice, new_cart), Unknown)]

\* atoms[atom_idx].fractional_coords = lattice.to_fractional(&new_cart);
MoveAtom(lattice, atoms, atom_idx, new_cart) ==
    [atoms EXCEPT ![atom_idx].fractional_coords = to_fractional(lattice, new_cart)]

\* One pass of the loop body on the list the earlier passes left.
MoveNext(lattice, atoms, atom_idx, bottom_plane, top_z_avg, v_down) ==
    MoveAtom(lattice, atoms, atom_idx,
             NewCart(lattice, atoms, atom_idx, bottom_plane, top_z_avg, v_down))

\* The three returns of stabilize.  `moved` and `planes` record which atoms
\* the call moved and the planes it found; the code returns only the report.
NotApplied(atoms) ==
    [atoms |-> atoms, report |-> [kind |-> "none"], moved |-> <<>>, planes |-> <<>>]

Stable(atoms, planes, dipole_z) ==
    [atoms |-> atoms, report |-> [kind |-> "stable", dipole |-> dipole_z],
     moved |-> <<>>, planes |-> planes]

Moved(atoms, planes, dipole_z, num_to_move) ==
    [atoms |-> atoms,
     report |-> [kind |-> "moved", dipole |-> dipole_z, num_to_move |-> num_to_move],
     moved |-> SubSeq(planes[Len(planes)], 1, num_to_move), planes |-> planes]

\* v_up = average_pos(planes[1]) - average_pos(planes[0]); v_down = -v_up
\* (the planes are numbered from 1 here: planes[1] is the bottom plane)
VDown(lattice, atoms, planes) ==
    QVSub(average_pos(lattice, planes[1], atoms), average_pos(lattice, planes[2], atoms))

MustMoveAnyDipole(planes, dipole_z) ==
    /\ Len(planes[Len(planes)]) \div 2 > 0
    /\ Len(planes) > 1

\* if dipole_z.abs() > 0.5 { if num_to_move > 0 && planes.len() > 1 { ... } }
MustMove(planes, dipole_z) ==
    /\ QLt(DipoleThreshold, QAbs(dipole_z))
    /\ Len(planes[Len(planes)]) \div 2 > 0
    /\ Len(planes) > 1

MaxIons == 3        \* atoms of the slabs given directly to stabilize

\* A 4 x 4 x 8 A slab cell; the sites are 0, 0.125, 2 and 4 A up the z axis.
IonLattice == Lattice(Diag(QInt(4), QInt(4), QInt(8)))

IonSites == { At(QZero, QZero, z) : z \in { QZero, <<1, 64>>, <<1, 4>>, <<1, 2>> } }

IonElements == { "Na", "Cl", "Cu" }

IonAtoms == { Atom(el, f, "MetalNode") : el \in IonElements, f \in IonSites }

IonSlabs == UNION { [1 .. k -> IonAtoms] : k \in 0 .. MaxIons }

\* A call of stabilize; `origin` tells where the slab came from.
IonCallOf(atoms, lattice, mode, origin) ==
    [pc |-> "call", atoms |-> atoms, lattice |-> lattice, mode |-> mode, origin |-> origin]

IonInit ==
    /\ ion \in { IonCallOf(atoms, IonLattice, mode, [kind |-> "direct"]) :
                   atoms \in IonSlabs, mode \in { NoMode, DipoleCorrection } }
    /\ basis = Idle
    /\ red = Idle
    /\ geo = Idle
    /\ mf = Idle
    /\ pop = Idle
    /\ stack = Idle
    /\ lll = Idle
    /\ det = Idle
    /\ cli = Idle

\* The call with its result; `atoms` keeps the atoms as they were handed in
\* and res.atoms is the list after the in-place mutation.
IonReturn(call, res) ==
    [pc |-> "returned", atoms |-> call.atoms, lattice |-> call.lattice,
     mode |-> call.mode, origin |-> call.origin, res |-> res]

\* The call at one of its steps: "keys" (the z of every atom is known),
\* "sorted" (after indices.sort_by), "clustered" (after the plane loop) and
\* "moving" (inside `for &atom_idx in top_plane.iter().take(num_to_move)`
\* after k passes; `work` is the atom list as mutated so far).
IonStep(call, pc, more) ==
    [pc |-> pc, atoms |-> call.atoms, lattice |-> call.lattice,
     mode |-> call.mode, origin |-> call.origin] @@ more

\* if mode == None || atoms.is_empty() { return }; the sort keys.
IonCall ==
    /\ ion.pc = "call"
    /\ ion' = IF ion.mode = NoMode \/ ion.atoms = <<>>
              THEN IonReturn(ion, NotApplied(ion.atoms))
              ELSE IonStep(ion, "keys", [zs |-> CartZ(ion.lattice, ion.atoms)])
    /\ UNCHANGED <<basis, red, geo, mf, pop, stack, lll, det, cli>>

\* indices.sort_by(...)
IonSort ==
    /\ ion.pc = "keys"
    /\ ion' = IonStep(ion, "sorted", [zs |-> ion.zs, indices |-> SortedIndices(ion.zs)])
    /\ UNCHANGED <<basis, red, geo, mf, pop, stack, lll, det, cli>>

\* The plane clustering loop.
IonCluster ==
    /\ ion.pc = "sorted"
    /\ ion' = IonStep(ion, "clustered",
                       [zs |-> ion.zs, planes |-> PlanesOf(ion.zs, ion.indices)])
    /\ UNCHANGED <<basis, red, geo, mf, pop, stack, lll, det, cli>>

\* The loop over the top plane before its first pass.
IonLoopEntry(call, planes, dipole_z) ==
    IonStep(call, "moving",
            [work |-> call.atoms, planes |-> planes, dipole_z |-> dipole_z, k |-> 0,
             top_z_avg |-> average_pos(call.lattice, planes[Len(planes)], call.atoms),
             v_down |-> VDown(call.lattice, call.atoms, planes)])

\* Steps 2 and 3 of stabilize up to the loop over the top plane.
IonDecide(call, planes, dipole_z) ==
    IF MustMove(planes, dipole_z) THEN IonLoopEntry(call, planes, dipole_z)
    ELSE IonReturn(call, Stable(call.atoms, planes, dipole_z))

\* Step 2: let dipole_z: f64 = atoms.iter().zip(charges.iter()).map(...).sum();
IonDipole ==
    /\ ion.pc = "clustered"
    /\ ion' = IonStep(ion, "dipole",
                       [planes |-> ion.planes,
                        dipole_z |-> DipoleRange(ion.atoms, ion.zs, 1, Len(ion.atoms))])
    /\ UNCHANGED <<basis, red, geo, mf, pop, stack, lll, det, cli>>

\* if dipole_z.abs() > 0.5 { ... } else the stable return.
IonCheck ==
    /\ ion.pc = "dipole"
    /\ ion' = IonDecide(ion, ion.planes, ion.dipole_z)
    /\ UNCHANGED <<basis, red, geo, mf, pop, stack, lll, det, cli>>

\* One pass of the loop: the next atom of the top plane is moved.
IonMove ==
    /\ ion.pc = "moving"
    /\ ion.k < Len(ion.planes[Len(ion.planes)]) \div 2
    /\ ion' = [ion EXCEPT
                 !.work = MoveNext(ion.lattice, ion.work,
                                   ion.planes[Len(ion.planes)][ion.k + 1],
                                   ion.planes[1], ion.top_z_avg, ion.v_down),
                 !.k = ion.k + 1]
    /\ UNCHANGED <<basis, red, geo, mf, pop, stack, lll, det, cli>>

\* The loop is over: return Ok("... Moved {} atoms ...").
IonMovedAll ==
    /\ ion.pc = "moving"
    /\ ion.k = Len(ion.planes[Len(ion.planes)]) \div 2
    /\ ion' = IonReturn(ion, Moved(ion.work, ion.planes, ion.dipole_z, ion.k))
    /\ UNCHANGED <<basis, red, geo, mf, pop, stack, lll, det, cli>>

IonNext ==
    IonCall \/ IonSort \/ IonCluster \/ IonDipole \/ IonCheck \/ IonMove \/ IonMovedAll

SpecStabilize == IonInit /\ [][IonNext]_vars

IonReturned == ion.pc = "returned"

IonMoved == IonReturned /\ ion.res.report.kind = "moved"

\* C13: stabilize keeps the length and the order of the atom list and every
\* atom's element and component tag; the atoms it did not move keep their
\* fractional coordinates.
C13_OnlyMovedCoordinatesChange ==
    IonReturned =>
        /\ Len(ion.res.atoms) = Len(ion.atoms)
        /\ \A i \in DOMAIN ion.atoms :
              /\ ion.res.atoms[i].element = ion.atoms[i].element
              /\ ion.res.atoms[i].component_type = ion.atoms[i].component_type
              /\ (i \notin Range(ion.res.moved)) =>
                     ion.res.atoms[i].fractional_coords = ion.atoms[i].fractional_coords

\* A call moved an atom and changed its coordinates.
C13_Witness ==
    /\ IonMoved
    /\ \E i \in Range(ion.res.moved) :
          ion.res.atoms[i].fractional_coords # ion.atoms[i].fractional_coords

\* C14: when the report says N atoms were moved, N is half the top plane
\* (rounded down) and the dipole |sum q z| of the atoms after the call is
\* strictly below the one before it.
C14_MoveLowersDipole ==
    IonMoved =>
        /\ ion.res.report.num_to_move = Len(ion.res.planes[Len(ion.res.planes)]) \div 2
        /\ QLt(QAbs(DipoleZ(ion.lattice, ion.res.atoms)), QAbs(DipoleZ(ion.lattice, ion.atoms)))

(***************************************************************************)
(* lib.rs: generate_surface, phases 1 to 4, with the dipole reconstructor  *)
(* run on the slab the populator returned.                                 *)
(***************************************************************************)
\* Two ions in a cubic 4 A cell: Na at the corner, Cl at the body centre.
IonicCrystal ==
    [lattice |-> Lattice(Cubic(QInt(4))),
     atoms |-> << Atom("Na", At(QZero, QZero, QZero), Unknown),
                  Atom("Cl", At(Half, Half, Half), Unknown) >>]

\* SurfaceConfig: the run of the populator plus config.reconstruct.
SurfaceConfig(run, reconstruct) == [run |-> run, reconstruct |-> reconstruct]

SurfaceConfigs ==
    { SurfaceConfig(Run(c, hkl, QInt(t), QInt(v), QZero, m), r) :
        c \in { IonicCrystal, SimpleCubic },
        hkl \in { <<0, 0, 1>>, <<1, 0, 0>>, <<0, 1, 0>>, <<1, 2, 2>> },
        t \in { 1, 3 }, v \in { 0, 15 }, m \in BOOLEAN, r \in BOOLEAN }

SurfaceFailed(config, why) == [pc |-> "failed", config |-> config, why |-> why]

\* if matrix.determinant().abs() < 1e-6 { return Err }
DetTooSmall(m) == QLt(QAbs(Det(m)), <<1, 1000000>>)

\* Phase 4: the slab lattice, the mode, and the call of stabilize.
PhysicsPhase(config, geometry, slab_atoms) ==
    IF DetTooSmall(geometry.basis) THEN SurfaceFailed(config, "lattice")
    ELSE IonCallOf(slab_atoms, Lattice(geometry.basis),
                   IF config.reconstruct THEN DipoleCorrection ELSE NoMode,
                   [kind |-> "pipeline", config |-> config, geometry |-> geometry])

SynthesisResult(config, geometry, slab) ==
    IF slab.kind # "ok" THEN SurfaceFailed(config, slab.why)
    ELSE PhysicsPhase(config, geometry, slab.atoms)

\* Phase 3: populate with the molecules the caller found in the bulk.
SynthesisPhase(config, geometry) ==
    SynthesisResult(config, geometry,
        populate(config.run.crystal, geometry,
                 IF config.run.with_molecules
                 THEN find_molecules(config.run.crystal, BondCutoff) ELSE <<>>,
                 config.run.offset))

\* Phase 1: the slab geometry or its error.
MathPhase(config, geometry) ==
    IF geometry.kind # "ok" THEN SurfaceFailed(config, geometry.kind)
    ELSE [pc |-> "populate", config |-> config, geometry |-> geometry]

SurfInit ==
    /\ ion \in { [pc |-> "generate", config |-> c] : c \in SurfaceConfigs }
    /\ basis = Idle
    /\ red = Idle
    /\ geo = Idle
    /\ mf = Idle
    /\ pop = Idle
    /\ stack = Idle
    /\ lll = Idle
    /\ det = Idle
    /\ cli = Idle

SurfGeometry ==
    /\ ion.pc = "generate"
    /\ ion' = MathPhase(ion.config,
                        compute_geometry(ion.config.run.crystal.lattice,
                                         ion.config.run.miller_indices,
                                         ion.config.run.thickness, ion.config.run.vacuum))
    /\ UNCHANGED <<basis, red, geo, mf, pop, stack, lll, det, cli>>

SurfPopulate ==
    /\ ion.pc = "populate"
    /\ ion' = SynthesisPhase(ion.config, ion.geometry)
    /\ UNCHANGED <<basis, red, geo, mf, pop, stack, lll, det, cli>>

SurfNext == SurfGeometry \/ SurfPopulate \/ IonNext

SpecSurface == SurfInit /\ [][SurfNext]_vars

\* stabilize moved atoms of a slab the pipeline produced.
SurfMoved == IonMoved /\ ion.origin.kind = "pipeline"

\* The unit vector along c'.
SurfNormal == Normalize(ion.origin.geometry.basis[3])

\* The projection of atom i of the list on the slab normal.
AlongNormal(atoms, i) == QVDot(CartOf(ion.lattice, atoms, i), SurfNormal)

TopAlongNormal == QMaxOf({ AlongNormal(ion.atoms, i) : i \in DOMAIN ion.atoms })

LowestUnmoved ==
    QMinOf({ AlongNormal(ion.res.atoms, i) : i \in DOMAIN ion.atoms \ Range(ion.res.moved) })

\* C15: the atoms stabilize moves in a pipeline slab lie in the top surface
\* plane along the slab normal (within the plane tolerance of the highest
\* projection), and after the move each of them projects strictly below
\* every atom that was not moved.
C15_MovesTopSurfaceBelowBottom ==
    SurfMoved =>
        \A m \in Range(ion.res.moved) :
            /\ QLt(QSub(TopAlongNormal, AlongNormal(ion.atoms, m)), PlaneTolerance)
            /\ QLt(AlongNormal(ion.res.atoms, m), LowestUnmoved)

(***************************************************************************)
(* population.rs: what populate returns, read back from the returned slab. *)
(***************************************************************************)
\* slab_normal, d_hkl, min_idx and max_idx of the call that returned.
PopWindow ==
    [normal |-> SlabNormal, d_hkl |-> pop.geometry.d_hkl,
     min_idx |-> QSub(QDiv(pop.offset, pop.geometry.d_hkl), LayerEpsilon),
     max_idx |-> QSub(QAdd(QDiv(pop.offset, pop.geometry.d_hkl), QInt(pop.geometry.n_layers)),
                      LayerEpsilon)]

\* let layer_val = z_ang / geometry.d_hkl, for a Cartesian position
LayerVal(w, pos) == QDiv(QVDot(pos, w.normal), w.d_hkl)

\* layer_val >= min_idx && layer_val < max_idx
LayerInWindow(w, pos) ==
    QLe(w.min_idx, LayerVal(w, pos)) /\ QLt(LayerVal(w, pos), w.max_idx)

\* cell_height_ang = proj_a.max(proj_b).max(proj_c)
PopCellHeight(w) ==
    QMaxOf({ QAbs(QVDot(pop.crystal.lattice.matrix[c], w.normal)) : c \in 1 .. 3 })

\* let repeats = (total_slab_height / cell_height_ang).ceil() as i32 + 3;
PopRepeats(w) == QCeil(QDiv(NominalHeight, PopCellHeight(w))) + 3

\* The periodic image shifts populate walks over, each with its Cartesian
\* vector.
ShiftsWithin(repeats) ==
    { [shift |-> <<i, j, k>>, cart |-> to_cartesian(pop.crystal.lattice, QV(<<i, j, k>>))] :
        i \in -repeats .. repeats, j \in -repeats .. repeats, k \in -repeats .. repeats }

PopShifts == ShiftsWithin(PopRepeats(PopWindow))

\* The molecule images <<shift, molecule>> whose shifted centre of mass is in
\* the window.
AcceptedAmong(w, shifts) ==
    { im \in shifts \X DOMAIN pop.molecules :
        LayerInWindow(w, QVAdd(pop.molecules[im[2]].center_of_mass, im[1].cart)) }

\* The position of atom a of molecule image im before the slab is centred.
ImageAtomPos(im, a) == QVAdd(pop.molecules[im[2]].atoms[a][2], im[1].cart)

ImageAtoms(images) ==
    UNION { { ImageAtomPos(im, a) : a \in DOMAIN pop.molecules[im[2]].atoms } : im \in images }

ImageSizes(images) ==
    UNION { { <<im, a>> : a \in DOMAIN pop.molecules[im[2]].atoms } : im \in images }

LowestOf(w, positions) == QMinOf({ QVDot(p, w.normal) : p \in positions })

\* The Cartesian position of returned atom n.
SlabCart(n) == MatVec(pop.geometry.basis, pop.slab.atoms[n].fractional_coords)

SlabCarts == { SlabCart(n) : n \in DOMAIN pop.slab.atoms }

\* The returned positions with the centring shift (along the normal, by
\* shift_val) taken off.
ShiftedBack(w, carts, shift_val) == { QVSub(p, QVScale(w.normal, shift_val)) : p \in carts }

\* The returned positions before centring: centring moved the lowest
\* projection of the accepted atoms to the lowest projection of the slab.
Uncentred(w, carts, accepted_atoms) ==
    ShiftedBack(w, carts, QSub(LowestOf(w, carts), LowestOf(w, accepted_atoms)))

AllOrNone(shifts, accepted, emitted) ==
    \A im \in shifts \X DOMAIN pop.molecules :
        \A a \in DOMAIN pop.molecules[im[2]].atoms :
            (ImageAtomPos(im, a) \in emitted) <=> (im \in accepted)

MolecularIntegrity(w, shifts, accepted) ==
    /\ Len(pop.slab.atoms) = Cardinality(ImageSizes(accepted))
    /\ AllOrNone(shifts, accepted, Uncentred(w, SlabCarts, ImageAtoms(accepted)))

\* C16: in molecular mode, for every image shift and every molecule, all
\* atoms of the image are returned (at the unwrapped position plus the
\* shift) when the shifted centre of mass is in the layer window and none
\* otherwise; the returned list is as long as the accepted images together.
C16_MoleculesAllOrNone ==
    (Populated /\ pop.molecules # <<>>) =>
        MolecularIntegrity(PopWindow, PopShifts, AcceptedAmong(PopWindow, PopShifts))

StraddlesWindow(w, accepted) ==
    \E im \in accepted :
        /\ Len(pop.molecules[im[2]].atoms) >= 2
        /\ \E a \in DOMAIN pop.molecules[im[2]].atoms : ~LayerInWindow(w, ImageAtomPos(im, a))

\* An accepted image of a molecule of two atoms has an atom whose own layer
\* index is outside the window.
C16_Witness ==
    /\ Populated
    /\ pop.molecules # <<>>
    /\ StraddlesWindow(PopWindow, AcceptedAmong(PopWindow, PopShifts))

\* The bulk atom images <<shift, atom index>> that are in the window.
AcceptedAtoms(w, shifts) ==
    { im \in shifts \X DOMAIN pop.crystal.atoms :
        LayerInWindow(w, QVAdd(to_cartesian(pop.crystal.lattice,
                                            pop.crystal.atoms[im[2]].fractional_coords),
                               im[1].cart)) }

\* What atomic mode is to return for an accepted image: the image position
\* with the element and the tag of the bulk atom.
BulkImage(im) ==
    [pos |-> QVAdd(to_cartesian(pop.crystal.lattice, pop.crystal.atoms[im[2]].fractional_coords),
                   im[1].cart),
     element |-> pop.crystal.atoms[im[2]].element,
     component_type |-> pop.crystal.atoms[im[2]].component_type]

\* What molecular mode is to return for atom a of an accepted image.
MoleculeImage(im, a) ==
    [pos |-> ImageAtomPos(im, a), element |-> pop.molecules[im[2]].atoms[a][1],
     component_type |-> Unknown]

MoleculeImages(accepted) ==
    UNION { { MoleculeImage(im, a) : a \in DOMAIN pop.molecules[im[2]].atoms } : im \in accepted }

Positions(images) == { x.pos : x \in images }

\* Returned atom n with its position before centring.
ReturnedImage(w, n, shift_val) ==
    [pos |-> QVSub(SlabCart(n), QVScale(w.normal, shift_val)),
     element |-> pop.slab.atoms[n].element,
     component_type |-> pop.slab.atoms[n].component_type]

\* Every returned atom is one of the expected images, element and tag included.
ReturnsOnlyAt(w, expected, shift_val) ==
    \A n \in DOMAIN pop.slab.atoms : ReturnedImage(w, n, shift_val) \in expected

ReturnsOnly(w, expected) ==
    ReturnsOnlyAt(w, expected, QSub(LowestOf(w, SlabCarts), LowestOf(w, Positions(expected))))

ExpectedImages(w, shifts) ==
    IF pop.molecules = <<>> THEN { BulkImage(im) : im \in AcceptedAtoms(w, shifts) }
    ELSE MoleculeImages(AcceptedAmong(w, shifts))

\* C17: every atom populate returns carries, in atomic mode, the element and
\* the component tag of the bulk atom whose periodic image it is, and in
\* molecular mode the element of its molecule atom and the tag Unknown.
C17_TagsPreserved == Populated => ReturnsOnly(PopWindow, ExpectedImages(PopWindow, PopShifts))

\* Atomic mode returned a metal node and a linker atom.
C17_Witness ==
    /\ Populated
    /\ pop.crystal = TaggedCrystal
    /\ pop.molecules = <<>>
    /\ \E n \in DOMAIN pop.slab.atoms : pop.slab.atoms[n].component_type = "MetalNode"
    /\ \E n \in DOMAIN pop.slab.atoms : pop.slab.atoms[n].component_type = "OrganicLinker"

(***************************************************************************)
(* connectivity.rs in f64.  The finder's arithmetic on a row of atoms      *)
(* along x in the cubic 1 A cell (lattice and reciprocal matrix are the    *)
(* identity, so to_cartesian and to_fractional return their argument and   *)
(* the y and z components stay 0): f64 additions and subtractions, round,  *)
(* floor and the division by the atom count.                               *)
(*                                                                         *)
(* An f64 of this computation is a multiple of 2^-56 below 16 in size; it  *)
(* is kept as a sign and a magnitude <<hi, lo>> = hi * 2^30 + lo in units  *)
(* of 2^-56.  A sum is formed exactly and rounded to 53 significant bits,  *)
(* to nearest, ties to even, as the hardware does.  The sign of zero is    *)
(* not kept.                                                               *)
(***************************************************************************)
\* The weight of hi.
F64Limb == 2 ^ 30

\* 1.0 is <<F64OneHi, 0>>.
F64OneHi == 2 ^ 26

\* A magnitude with hi >= F64FullHi has more than 53 bits.
F64FullHi == 2 ^ 23

F64(neg, mag) == [neg |-> neg /\ mag # <<0, 0>>, mag |-> mag]

F64Zero == F64(FALSE, <<0, 0>>)

F64OfInt(k) == F64(k < 0, <<Abs(k) * F64OneHi, 0>>)

MagAdd(a, b) == <<a[1] + b[1] + (a[2] + b[2]) \div F64Limb, (a[2] + b[2]) % F64Limb>>

\* a - b for a >= b
MagSub(a, b) ==
    IF a[2] < b[2] THEN <<a[1] - b[1] - 1, a[2] - b[2] + F64Limb>>
    ELSE <<a[1] - b[1], a[2] - b[2]>>

MagLt(a, b) == a[1] < b[1] \/ (a[1] = b[1] /\ a[2] < b[2])

\* The exact sum of two values.
ExactAdd(a, b) ==
    IF a.neg = b.neg THEN F64(a.neg, MagAdd(a.mag, b.mag))
    ELSE IF MagLt(a.mag, b.mag) THEN F64(b.neg, MagSub(b.mag, a.mag))
    ELSE F64(a.neg, MagSub(a.mag, b.mag))

ExactNeg(a) == F64(~a.neg, a.mag)

\* a >= b
ExactGe(a, b) == ~ExactAdd(a, ExactNeg(b)).neg

\* The number of low bits a magnitude of more than 53 bits loses.
DroppedBits(hi) == CHOOSE r \in 1 .. 7 : 2 ^ (22 + r) <= hi /\ hi < 2 ^ (23 + r)

\* Round to nearest, ties to even, dropping the low r bits (q = 2^r).
RoundDropping(mag, q) ==
    IF 2 * (mag[2] % q) > q \/ (2 * (mag[2] % q) = q /\ (mag[2] \div q) % 2 = 1)
    THEN MagAdd(<<mag[1], mag[2] - (mag[2] % q)>>, <<0, q>>)
    ELSE <<mag[1], mag[2] - (mag[2] % q)>>

RoundTo53(mag) ==
    IF mag[1] < F64FullHi THEN mag ELSE RoundDropping(mag, 2 ^ DroppedBits(mag[1]))

Rounded(a) == F64(a.neg, RoundTo53(a.mag))

\* a + b and a - b in f64
F64Add(a, b) == Rounded(ExactAdd(a, b))

F64Sub(a, b) == Rounded(ExactAdd(a, ExactNeg(b)))

\* f64::round: to the nearest integer, halves away from zero
F64Round(a) ==
    F64(a.neg, <<(a.mag[1] \div F64OneHi
                  + (IF a.mag[1] % F64OneHi >= F64OneHi \div 2 THEN 1 ELSE 0)) * F64OneHi, 0>>)

\* Half the distance, in units of 2^-56, from the integer k to the next f64
\* below it.
HalfGapBelow(k) ==
    CASE k = 0 -> 0
      [] k = 1 -> 4
      [] k = 2 \/ k = -1 -> 8
      [] k = 3 \/ k = 4 \/ k = -2 \/ k = -3 -> 16
      [] k = -4 -> 32

\* The least real that rounds to an f64 >= k (k has an even mantissa, so the
\* tie goes to k).
RoundsUpTo(k) == ExactAdd(F64OfInt(k), F64(TRUE, <<0, HalfGapBelow(k)>>))

RECURSIVE Times(_, _)
Times(a, n) == IF n = 0 THEN F64Zero ELSE ExactAdd(a, Times(a, n - 1))

\* (sum / n).floor() for n > 0: the floor of the rounded quotient is the
\* largest integer k with sum / n >= RoundsUpTo(k).
FloorOfQuotient(sum, n) ==
    CHOOSE k \in -4 .. 3 :
        /\ ExactGe(sum, Times(RoundsUpTo(k), n))
        /\ ~ExactGe(sum, Times(RoundsUpTo(k + 1), n))

\* get_shortest_distance_vector: d = f2 - f1; d - d.round()
WrappedF64(f1, f2) == F64Sub(F64Sub(f2, f1), F64Round(F64Sub(f2, f1)))

\* The unwrapping search on a row whose atoms are all bonded to the anchor:
\* the anchor keeps its position, atom i gets current_pos + shortest_vec.
ReassembledRow(xs) ==
    [i \in DOMAIN xs |-> IF i = 1 THEN xs[1] ELSE F64Add(xs[1], WrappedF64(xs[1], xs[i]))]

\* for pos in values { com += pos } with the values in the given order
RECURSIVE SumInOrder(_, _, _)
SumInOrder(pos, order, k) ==
    IF k = 0 THEN F64Zero ELSE F64Add(SumInOrder(pos, order, k - 1), pos[order[k]])

\* shift_frac = -frac_com.map(|x| x.floor())
ShiftOf(com_sum, n) == F64OfInt(-FloorOfQuotient(com_sum, n))

FinalRow(pos, shift_cart) == [i \in DOMAIN pos |-> F64Add(pos[i], shift_cart)]

\* The molecule: the final positions and the centre of mass final_com / n,
\* kept as the f64 sum and the count it is divided by.
MoleculeOfRow(final) ==
    [atoms |-> final,
     center_of_mass |-> [sum |-> SumInOrder(final, [i \in DOMAIN final |-> i], Len(final)),
                         count |-> Len(final)]]

\* Steps 4 and 5 with the hash map iterated in the given order.
ShiftedRow(pos, values_order) ==
    MoleculeOfRow(FinalRow(pos, ShiftOf(SumInOrder(pos, values_order, Len(pos)), Len(pos))))

find_molecules_f64(xs, values_order) == ShiftedRow(ReassembledRow(xs), values_order)

MaxRow == 3         \* atoms of the rows

\* The f64 nearest to 0.0, 0.1, ..., 0.9.
Tenths ==
    { <<0, 0>>, <<6710886, 429496730>>, <<13421772, 858993460>>, <<20132659, 214748364>>,
      <<26843545, 644245096>>, <<33554432, 0>>, <<40265318, 429496728>>,
      <<46976204, 858993456>>, <<53687091, 214748368>>, <<60397977, 644245096>> }

\* MoleculeFinder::new(2.0)
CutoffF64 == F64OfInt(2)

\* Every atom of the row is bonded to the anchor.
RowBonded(xs) ==
    \A i \in DOMAIN xs : i > 1 => MagLt(WrappedF64(xs[1], xs[i]).mag, CutoffF64.mag)

Rows ==
    { xs \in UNION { [1 .. n -> { F64(FALSE, m) : m \in Tenths }] : n \in 1 .. MaxRow } :
        /\ \A i \in DOMAIN xs : \A j \in DOMAIN xs : i # j => xs[i] # xs[j]
        /\ RowBonded(xs) }

\* The orders in which the values of a hash map of n entries can come.
ValueOrders(n) == { o \in [1 .. n -> 1 .. n] : \A i \in 1 .. n : \E k \in 1 .. n : o[k] = i }

DetInit ==
    /\ det \in { [pc |-> "call", xs |-> xs] : xs \in Rows }
    /\ basis = Idle
    /\ red = Idle
    /\ geo = Idle
    /\ mf = Idle
    /\ pop = Idle
    /\ stack = Idle
    /\ ion = Idle
    /\ lll = Idle
    /\ cli = Idle

\* A first run of find_molecules on the crystal.
DetFirst ==
    /\ det.pc = "call"
    /\ \E o \in ValueOrders(Len(det.xs)) :
          det' = [pc |-> "once", xs |-> det.xs,
                  first |-> [values_order |-> o, molecule |-> find_molecules_f64(det.xs, o)]]
    /\ UNCHANGED <<basis, red, geo, mf, pop, stack, ion, lll, cli>>

\* A second run on the same crystal.
DetSecond ==
    /\ det.pc = "once"
    /\ \E o \in ValueOrders(Len(det.xs)) :
          det' = [pc |-> "twice", xs |-> det.xs, first |-> det.first,
                  second |-> [values_order |-> o, molecule |-> find_molecules_f64(det.xs, o)]]
    /\ UNCHANGED <<basis, red, geo, mf, pop, stack, ion, lll, cli>>

DetNext == DetFirst \/ DetSecond

SpecFinderRuns == DetInit /\ [][DetNext]_vars

\* C19: two runs of the finder on the same crystal return the same
\* molecule (same positions, same centre of mass), whatever the orders in
\* which the two runs iterate the hash map of reassembled positions.
C19_RunsAgree == det.pc = "twice" => det.first.molecule = det.second.molecule

\* The stored centre of mass is the mean of the stored positions.
ComIsMean(m) ==
    /\ m.center_of_mass.count = Len(m.atoms)
    /\ m.center_of_mass.sum = SumInOrder(m.atoms, [i \in DOMAIN m.atoms |-> i], Len(m.atoms))

\* The stored centre of mass, final_com / count as an f64, is in [0, 1).
ComInCell(m) == FloorOfQuotient(m.center_of_mass.sum, m.center_of_mass.count) = 0

\* Every atom is its unwrapped position plus one and the same integer.
SameIntegerShift(xs, m) ==
    \E k \in -4 .. 4 :
        \A i \in DOMAIN xs : m.atoms[i] = F64Add(ReassembledRow(xs)[i], F64OfInt(k))

\* C18: the stored centre of mass of a returned molecule is the mean of its
\* stored positions, its fractional coordinate is in [0, 1), and all atoms
\* of the molecule were shifted by the same integer lattice vector.
C18_ComInFundamentalCell ==
    det.pc = "once" =>
        /\ ComIsMean(det.first.molecule)
        /\ ComInCell(det.first.molecule)
        /\ SameIntegerShift(det.xs, det.first.molecule)

(***************************************************************************)
(* lll.rs: lll_reduce on f64 with its exponent range.  A value is          *)
(* q * 2^e with q an exact rational, an infinity, or NaN.  A result whose  *)
(* magnitude reaches 2^F64MaxExp is infinite and one below 2^F64MinExp is  *)
(* zero; the round-off of the 53-bit significand is not modelled, and a    *)
(* zero is taken as +0 (the only divisors of lll_reduce are sums of        *)
(* squares).                                                               *)
(***************************************************************************)
F64MaxExp == 1024

F64MinExp == -1075

Finite(q, e) == [kind |-> "finite", q |-> q, e |-> IF q = QZero THEN 0 ELSE e]

Infinite(sign) == [kind |-> "infinite", q |-> QInt(sign), e |-> 0]

NaN == [kind |-> "nan", q |-> QZero, e |-> 0]

IsNaN(x) == x.kind = "nan"

IsInfinite(x) == x.kind = "infinite"

IsZero(x) == x.kind = "finite" /\ x.q = QZero

SignOf(x) == Sign(x.q[1])

\* The operators below bind each operand once (u, v) before they examine it.

\* q >= 2^s, for a positive rational q.
RECURSIVE AtLeastPow2(_, _)
AtLeastPow2(q, s) ==
    \E u \in { q } :
        IF QLt(u, QInt(1)) THEN (s < 0 /\ AtLeastPow2(QMul(u, QInt(2)), s + 1))
        ELSE (s <= 0 \/ AtLeastPow2(QMul(u, Half), s - 1))

\* The f64 of the exact result q * 2^e of an operation.
InRange(q, e) ==
    CHOOSE r \in
        { IF u = QZero THEN Finite(QZero, 0)
          ELSE IF AtLeastPow2(QAbs(u), F64MaxExp - e) THEN Infinite(Sign(u[1]))
          ELSE IF ~AtLeastPow2(QAbs(u), F64MinExp - e) THEN Finite(QZero, 0)
          ELSE Finite(u, e) : u \in { q } } : TRUE

FNeg(x) == CHOOSE r \in { [u EXCEPT !.q = QNeg(u.q)] : u \in { x } } : TRUE

FAbs(x) == CHOOSE r \in { [u EXCEPT !.q = QAbs(u.q)] : u \in { x } } : TRUE

FMul(x, y) ==
    CHOOSE r \in
        { IF IsNaN(u) \/ IsNaN(v) THEN NaN
          ELSE IF IsInfinite(u) \/ IsInfinite(v)
          THEN (IF IsZero(u) \/ IsZero(v) THEN NaN ELSE Infinite(SignOf(u) * SignOf(v)))
          ELSE InRange(QMul(u.q, v.q), u.e + v.e) : u \in { x }, v \in { y } } : TRUE

\* The exponents of the model are multiples of the exponent of the input, so
\* two finite terms of different exponents are hundreds of binary places
\* apart and the sum is the larger one.
FAdd(x, y) ==
    CHOOSE r \in
        { IF IsNaN(u) \/ IsNaN(v) THEN NaN
          ELSE IF IsInfinite(u)
          THEN (IF IsInfinite(v) /\ SignOf(u) # SignOf(v) THEN NaN ELSE u)
          ELSE IF IsInfinite(v) THEN v
          ELSE IF IsZero(u) THEN v
          ELSE IF IsZero(v) THEN u
          ELSE IF u.e = v.e THEN InRange(QAdd(u.q, v.q), u.e)
          ELSE IF u.e > v.e THEN u ELSE v : u \in { x }, v \in { y } } : TRUE

FSub(x, y) == FAdd(x, FNeg(y))

FDiv(x, y) ==
    CHOOSE r \in
        { IF IsNaN(u) \/ IsNaN(v) THEN NaN
          ELSE IF IsInfinite(u)
          THEN (IF IsInfinite(v) THEN NaN
                ELSE Infinite(SignOf(u) * (IF SignOf(v) < 0 THEN -1 ELSE 1)))
          ELSE IF IsInfinite(v) THEN Finite(QZero, 0)
          ELSE IF IsZero(v) THEN (IF IsZero(u) THEN NaN ELSE Infinite(SignOf(u)))
          ELSE InRange(QDiv(u.q, v.q), u.e - v.e) : u \in { x }, v \in { y } } : TRUE

\* x < y; false when either is NaN.
FLt(x, y) ==
    \E u \in { x } : \E v \in { y } :
        IF IsNaN(u) \/ IsNaN(v) THEN FALSE
        ELSE IF IsInfinite(u) \/ IsInfinite(v)
        THEN (IF IsInfinite(u) /\ IsInfinite(v) THEN SignOf(u) < SignOf(v)
              ELSE IF IsInfinite(u) THEN SignOf(u) < 0 ELSE SignOf(v) > 0)
        ELSE IF u.e = v.e \/ IsZero(u) \/ IsZero(v) THEN QLt(u.q, v.q)
        ELSE IF SignOf(u) # SignOf(v) THEN SignOf(u) < SignOf(v)
        ELSE IF SignOf(u) > 0 THEN u.e < v.e ELSE u.e > v.e

\* x > y and x >= y; false when either is NaN.
FGt(x, y) == FLt(y, x)

FGe(x, y) == \E u \in { x } : \E v \in { y } : ~IsNaN(u) /\ ~IsNaN(v) /\ ~FLt(u, v)

\* f64::round (half away from zero); a value of positive exponent is an
\* integer already and one of negative exponent is below a half.
FRound(x) ==
    CHOOSE r \in
        { IF u.kind # "finite" THEN u
          ELSE IF u.e = 0 THEN Finite(QInt(QRound(u.q)), 0)
          ELSE IF u.e > 0 THEN u ELSE Finite(QZero, 0) : u \in { x } } : TRUE

\* The three products are bound once each and then summed.
FVDot(a, b) ==
    CHOOSE r \in { FAdd(FAdd(x, y), z) :
                     x \in { FMul(a[1], b[1]) }, y \in { FMul(a[2], b[2]) },
                     z \in { FMul(a[3], b[3]) } } : TRUE

FVScale(a, x) ==
    CHOOSE r \in { <<FMul(u[1], v), FMul(u[2], v), FMul(u[3], v)>> : u \in { a }, v \in { x } } : TRUE

FVSub(a, b) ==
    CHOOSE r \in { <<FSub(u[1], v[1]), FSub(u[2], v[2]), FSub(u[3], v[3])>> :
                     u \in { a }, v \in { b } } : TRUE

\* let delta = 0.75
delta == Finite(LLLDelta, 0)

\* b.column(i).dot(&b_star.column(j)) / b_star.column(j).dot(&b_star.column(j))
mu_of(col, b_star_j) ==
    CHOOSE mu \in { FDiv(n, d) :
                      n \in { FVDot(col, b_star_j) }, d \in { FVDot(b_star_j, b_star_j) } } : TRUE

\* col_i -= b_star.column(j) * mu
minus_proj(b_i, col_i, b_star_j) ==
    CHOOSE c \in { FVSub(col_i, FVScale(b_star_j, mu)) : mu \in { mu_of(b_i, b_star_j) } } : TRUE

\* if mu.abs() > 0.5 { col_k -= b.column(j) * mu.round() }
reduced_by(b, k, j, mu) ==
    IF FGt(FAbs(mu), Finite(Half, 0))
    THEN SetCol(b, k, FVSub(b[k], FVScale(b[j], FRound(mu))))
    ELSE b

mu_k_km1(b, b_star, k) == mu_of(b[k], b_star[k - 1])

\* b_star.column(k).norm_squared() >= (delta - mu_k_km1.powi(2)) * b_star_km1_norm
condition_with(b_star, k, mu) ==
    \E b_star_km1_norm \in { FVDot(b_star[k - 1], b_star[k - 1]) } :
        \E b_star_k_norm \in { FVDot(b_star[k], b_star[k]) } :
            \E mu_sq \in { FMul(mu, mu) } :
                FGe(b_star_k_norm, FMul(FSub(delta, mu_sq), b_star_km1_norm))

condition_met(b, b_star, k) ==
    \E mu \in { mu_k_km1(b, b_star, k) } : condition_with(b_star, k, mu)

MaxEntry == 1       \* the entries of the input are 0..MaxEntry times 2^e

ScaleExp == 600     \* the exponents e of the input are -ScaleExp, 0, ScaleExp

MaxSwaps == 6       \* the swap counter of the model stops counting here

IntMatrices == [1 .. 3 -> [1 .. 3 -> 0 .. MaxEntry]]

\* The columns m times 2^e.
ScaledBasis(m, e) == [j \in 1 .. 3 |-> [i \in 1 .. 3 |-> Finite(QInt(m[j][i]), e)]]

NonSingular(m) == Det(<<QV(m[1]), QV(m[2]), QV(m[3])>>) # QZero

LLLInit ==
    /\ lll \in { [pc |-> "while", b |-> ScaledBasis(m, e), b_star |-> ScaledBasis(m, e),
                   k |-> 2, i |-> 2, j |-> 1, swaps |-> 0, e |-> e] :
                   m \in { x \in IntMatrices : NonSingular(x) },
                   e \in { -ScaleExp, 0, ScaleExp } }
    /\ basis = Idle
    /\ red = Idle
    /\ geo = Idle
    /\ mf = Idle
    /\ pop = Idle
    /\ stack = Idle
    /\ ion = Idle
    /\ det = Idle
    /\ cli = Idle

\* while k < n { let mut b_star = b; ... }; the columns and the working
\* column k are 1-based here, so the loop runs while k <= 3.
LLLEnter ==
    /\ lll.pc = "while"
    /\ lll.k <= 3
    /\ lll' = [lll EXCEPT !.pc = "gram_schmidt", !.b_star = lll.b, !.i = 2, !.j = 1]
    /\ UNCHANGED <<basis, red, geo, mf, pop, stack, ion, det, cli>>

\* One pass of the body of `for i in 0..k+1 { for j in 0..i {` (lines 14-18).
LLLProject ==
    /\ lll.pc = "gram_schmidt"
    /\ lll' = [lll EXCEPT
                 !.b_star = SetCol(lll.b_star, lll.i,
                                   minus_proj(lll.b[lll.i], lll.b_star[lll.i], lll.b_star[lll.j])),
                 !.j = IF lll.j + 1 < lll.i THEN lll.j + 1
                       ELSE IF lll.i < lll.k THEN 1 ELSE lll.k - 1,
                 !.i = IF lll.j + 1 < lll.i THEN lll.i ELSE lll.i + 1,
                 !.pc = IF lll.j + 1 < lll.i \/ lll.i < lll.k THEN "gram_schmidt"
                        ELSE "size_reduce"]
    /\ UNCHANGED <<basis, red, geo, mf, pop, stack, ion, det, cli>>

\* One pass of the body of `for j in (0..k).rev()` (lines 23-30).
LLLReduce ==
    /\ lll.pc = "size_reduce"
    /\ lll' = [lll EXCEPT
                 !.b = CHOOSE c \in { reduced_by(lll.b, lll.k, lll.j, mu) :
                                        mu \in { mu_of(lll.b[lll.k], lll.b_star[lll.j]) } } : TRUE,
                 !.j = IF lll.j > 1 THEN lll.j - 1 ELSE 1,
                 !.pc = IF lll.j > 1 THEN "size_reduce" ELSE "condition"]
    /\ UNCHANGED <<basis, red, geo, mf, pop, stack, ion, det, cli>>

\* condition_met: k += 1
LLLAdvance ==
    /\ lll.pc = "condition"
    /\ condition_met(lll.b, lll.b_star, lll.k)
    /\ lll' = [lll EXCEPT !.pc = "while", !.k = lll.k + 1]
    /\ UNCHANGED <<basis, red, geo, mf, pop, stack, ion, det, cli>>

\* !condition_met: b.swap_columns(k, k - 1); k = 1.max(k - 1)
LLLSwap ==
    /\ lll.pc = "condition"
    /\ ~condition_met(lll.b, lll.b_star, lll.k)
    /\ lll' = [lll EXCEPT !.pc = "while",
                          !.b = SwapCols(lll.b, lll.k, lll.k - 1),
                          !.k = IF lll.k - 1 > 2 THEN lll.k - 1 ELSE 2,
                          !.swaps = IF lll.swaps < MaxSwaps THEN lll.swaps + 1 ELSE lll.swaps]
    /\ UNCHANGED <<basis, red, geo, mf, pop, stack, ion, det, cli>>

\* `while k < n` is left and b is returned.
LLLReturn ==
    /\ lll.pc = "while"
    /\ lll.k > 3
    /\ lll' = [lll EXCEPT !.pc = "done"]
    /\ UNCHANGED <<basis, red, geo, mf, pop, stack, ion, det, cli>>

LLLNext == LLLEnter \/ LLLProject \/ LLLReduce \/ LLLAdvance \/ LLLSwap \/ LLLReturn

\* The loop is a sequential program: a step that can run does run.
SpecLLL == LLLInit /\ [][LLLNext]_vars /\ WF_vars(LLLNext)

\* C20: lll_reduce returns for every non-singular 3x3 input basis: the loop
\* over the working column reaches k = 3 and the function is left.
C20_Terminates == <>(lll.pc = "done")

\* The bases whose entries are far from the ends of the f64 exponent range
\* are reduced in finitely many passes.
TerminatesInRange == (lll.e = 0) ~> (lll.pc = "done")

(***************************************************************************)
(* topology.rs: VoidCrawler, the cut offset generate_surface selects when  *)
(* the configuration gives none.                                           *)
(***************************************************************************)
\* get_vdw_radius, for the elements of the model's crystals.
get_vdw_radius(element) ==
    CASE element = "N" -> <<155, 100>>
      [] element = "C" -> <<170, 100>>
      [] element = "O" -> <<152, 100>>
      [] element = "Na" -> <<227, 100>>
      [] element = "Mg" -> <<173, 100>>
      [] element = "Cl" -> <<175, 100>>
      [] element = "Cu" -> <<140, 100>>
      [] element = "Zn" -> <<139, 100>>
      [] OTHER -> <<180, 100>>

\* z.rem_euclid(periodicity)
rem_euclid(z, p) == QSub(z, QMul(p, QInt(QFloor(QDiv(z, p)))))

\* periodicity = p_a.max(p_b).max(p_c)
CrawlerPeriodicity(crystal, normal_normalized) ==
    QMaxOf({ QAbs(QVDot(crystal.lattice.matrix[c], normal_normalized)) : c \in 1 .. 3 })

\* The three copies (z_mod, z_mod - P, z_mod + P) of atom n, as the
\* exclusion zones [z - r, z + r] of find_safe_offsets.
ZonesOfAtom(crystal, normal_normalized, periodicity, n) ==
    LET z_mod == rem_euclid(QVDot(CartOf(crystal.lattice, crystal.atoms, n), normal_normalized),
                            periodicity)
        r == get_vdw_radius(crystal.atoms[n].element)
    IN  << <<QSub(z_mod, r), QAdd(z_mod, r)>>,
           <<QSub(QSub(z_mod, periodicity), r), QAdd(QSub(z_mod, periodicity), r)>>,
           <<QSub(QAdd(z_mod, periodicity), r), QAdd(QAdd(z_mod, periodicity), r)>> >>

RECURSIVE ZonesFrom(_, _, _, _)
ZonesFrom(crystal, normal_normalized, periodicity, n) ==
    IF n > Len(crystal.atoms) THEN <<>>
    ELSE ZonesOfAtom(crystal, normal_normalized, periodicity, n)
         \o ZonesFrom(crystal, normal_normalized, periodicity, n + 1)

\* intervals.sort_by(|a, b| a.0.total_cmp(&b.0)): a stable insertion.
RECURSIVE InsertByStart(_, _)
InsertByStart(sorted, zone) ==
    IF sorted = <<>> THEN <<zone>>
    ELSE IF QLt(zone[1], Head(sorted)[1]) THEN <<zone>> \o sorted
    ELSE <<Head(sorted)>> \o InsertByStart(Tail(sorted), zone)

RECURSIVE SortedByStart(_, _)
SortedByStart(zones, n) ==
    IF n = 0 THEN <<>> ELSE InsertByStart(SortedByStart(zones, n - 1), zones[n])

\* The sweep of lines 90-107: overlapping zones are merged.
RECURSIVE MergeFrom(_, _, _, _)
MergeFrom(intervals, n, current_start, current_end) ==
    IF n > Len(intervals) THEN << <<current_start, current_end>> >>
    ELSE IF QLt(intervals[n][1], current_end)
    THEN MergeFrom(intervals, n + 1, current_start, QMax(current_end, intervals[n][2]))
    ELSE << <<current_start, current_end>> >>
         \o MergeFrom(intervals, n + 1, intervals[n][1], intervals[n][2])

Merged(intervals) == MergeFrom(intervals, 2, intervals[1][1], intervals[1][2])

\* if gap_size > 0.01 and the mid point is in [0, P]: SafeCut { offset_z, gap_size }
RECURSIVE CutsFrom(_, _, _)
CutsFrom(merged, periodicity, n) ==
    IF n >= Len(merged) THEN <<>>
    ELSE LET gap_size == QSub(merged[n + 1][1], merged[n][2])
             mid_point == QAdd(merged[n][2], QMul(gap_size, Half))
         IN  (IF /\ QLt(<<1, 100>>, gap_size)
                 /\ QLe(QZero, mid_point)
                 /\ QLe(mid_point, periodicity)
              THEN << [offset_z |-> mid_point, gap_size |-> gap_size] >>
              ELSE <<>>)
             \o CutsFrom(merged, periodicity, n + 1)

\* cuts.sort_by(|a, b| b.gap_size.total_cmp(&a.gap_size)) and .first(): the
\* earliest of the cuts with the largest gap.
FirstCut(cuts) ==
    cuts[CHOOSE n \in DOMAIN cuts :
            /\ \A m \in DOMAIN cuts : QLe(cuts[m].gap_size, cuts[n].gap_size)
            /\ \A m \in 1 .. n - 1 : QLt(cuts[m].gap_size, cuts[n].gap_size)]

\* crawler.find_safe_offsets().first().map(|c| c.offset_z).unwrap_or(0.0)
CrawlerOffsetOf(cuts) == IF cuts = <<>> THEN QZero ELSE FirstCut(cuts).offset_z

CrawlerOffsetIn(crystal, normal_normalized, periodicity) ==
    IF crystal.atoms = <<>> THEN QZero
    ELSE CrawlerOffsetOf(
            CutsFrom(Merged(SortedByStart(ZonesFrom(crystal, normal_normalized, periodicity, 1),
                                          3 * Len(crystal.atoms))),
                     periodicity, 1))

CrawlerOffsetAlong(crystal, normal_normalized) ==
    CrawlerOffsetIn(crystal, normal_normalized, CrawlerPeriodicity(crystal, normal_normalized))

\* VoidCrawler::new(crystal, &normal) with normal = reciprocal_matrix * hkl
CrawlerOffset(crystal, hkl) ==
    CrawlerOffsetAlong(crystal, Normalize(MatVec(crystal.lattice.reciprocal_matrix, QV(hkl))))

(***************************************************************************)
(* main.rs and lib.rs: one run of the command-line program, with the       *)
(* phases of generate_surface as its steps.  What from_cif reads, what the *)
(* MOFid binaries produce and whether the output file can be written are   *)
(* the environment.  `stages` records the steps that were executed.        *)
(***************************************************************************)
None == [kind |-> "None"]

Some(x) == [kind |-> "Some", value |-> x]

Ok(x) == [kind |-> "ok", value |-> x]

Err(why) == [kind |-> "err", why |-> why]

\* fn main() -> Result<()>: Ok(()) ends the process with status 0 and an
\* Err that main returns ends it with status 1.
ExitCode(result) == IF result.kind = "ok" THEN 0 ELSE 1

\* Cli::parse() of `generate`; `input` is what from_cif makes of the file.
CliArgs(input, hkl, offset, reconstruct, with_mofid, expose_nodes, expose_linkers) ==
    [input |-> input, miller_indices |-> hkl, thickness |-> QInt(1), vacuum |-> QZero,
     offset |-> offset, reconstruct |-> reconstruct, with_mofid |-> with_mofid,
     expose_nodes |-> expose_nodes, expose_linkers |-> expose_linkers]

MainInputs == { Ok(SimpleCubic), Ok(IonicCrystal), Err("Could not read CIF file") }

MainMillers == { <<0, 0, 0>>, <<0, 0, 1>>, <<3, 0, 0>> }

MainOffsets == { None, Some(QZero), Some(Half), Some(QInt(15)) }

\* The MOFid run: analyze_cif fails, or its fragments match no atom, or
\* they match every atom as a metal node.
MofidOutcomes == { "failed", "unmatched", "nodes" }

MainStart(args) ==
    [pc |-> "main", args |-> args, stages |-> <<>>, crystal |-> None, molecules |-> <<>>,
     report_buffer |-> <<>>, geometry |-> None, offset |-> None, slab_atoms |-> None,
     surface |-> None, exit |-> None]

MainInit ==
    /\ cli \in { MainStart(CliArgs(input, hkl, offset, r, m, n, l)) :
                   input \in MainInputs, hkl \in MainMillers, offset \in MainOffsets,
                   r \in BOOLEAN, m \in BOOLEAN, n \in BOOLEAN, l \in BOOLEAN }
    /\ basis = Idle
    /\ red = Idle
    /\ geo = Idle
    /\ mf = Idle
    /\ pop = Idle
    /\ stack = Idle
    /\ ion = Idle
    /\ lll = Idle
    /\ det = Idle

\* The step `stage` was executed.
After(st, stage) == [st EXCEPT !.stages = Append(st.stages, stage)]

\* main returns `result`.
MainExit(st, result) ==
    [st EXCEPT !.pc = "exit", !.exit = [result |-> result, code |-> ExitCode(result)]]

SurfaceRetry(st, why) == [st EXCEPT !.pc = "math", !.surface = Err(why)]

\* A phase of generate_surface fails: `?` returns the error from
\* generate_surface and the `?` of main.rs:134 returns it from main.
SurfaceError(st, why) == MainExit([st EXCEPT !.surface = Err(why)], Err(why))

\* if expose_nodes && expose_linkers { anyhow::bail!(...) }
MainValidated(st) ==
    IF st.args.expose_nodes /\ st.args.expose_linkers
    THEN MainExit(st, Err("--expose-nodes and --expose-linkers cannot be used together."))
    ELSE [st EXCEPT !.pc = "from_cif"]

MainValidate ==
    /\ cli.pc = "main"
    /\ cli' = MainValidated(After(cli, "validate"))
    /\ UNCHANGED <<basis, red, geo, mf, pop, stack, ion, lll, det>>

\* let mut crystal = parser::from_cif(&input)?;
MainParsed(st) ==
    IF st.args.input.kind # "ok" THEN MainExit(st, st.args.input)
    ELSE [st EXCEPT !.pc = "find_molecules", !.crystal = st.args.input.value]

MainParse ==
    /\ cli.pc = "from_cif"
    /\ cli' = MainParsed(After(cli, "from_cif"))
    /\ UNCHANGED <<basis, red, geo, mf, pop, stack, ion, lll, det>>

\* let molecules = finder.find_molecules(&crystal)?; then the call of
\* generate_surface.
MainMolecules ==
    /\ cli.pc = "find_molecules"
    /\ cli' = [After(cli, "find_molecules") EXCEPT
                 !.pc = "semantic", !.molecules = find_molecules(cli.crystal, BondCutoff)]
    /\ UNCHANGED <<basis, red, geo, mf, pop, stack, ion, lll, det>>

\* tag_structure: the atoms the fragments match get the tag.
Tagged(crystal, outcome) ==
    IF outcome = "nodes"
    THEN [crystal EXCEPT !.atoms = [n \in DOMAIN crystal.atoms |->
                                      [crystal.atoms[n] EXCEPT !.component_type = "MetalNode"]]]
    ELSE crystal

\* Phase 0 with enable_mofid and the input path main always passes.
SemanticPhase(st, outcome) ==
    IF outcome = "failed" THEN SurfaceError(st, "MOFid Analysis Failed")
    ELSE [st EXCEPT !.pc = "math", !.crystal = Tagged(st.crystal, outcome),
                    !.report_buffer = <<"--- Chemistry ---">>]

GenSemantic ==
    /\ cli.pc = "semantic"
    /\ IF cli.args.with_mofid
       THEN \E outcome \in MofidOutcomes : cli' = SemanticPhase(After(cli, "tagging"), outcome)
       ELSE cli' = [cli EXCEPT !.pc = "math"]
    /\ UNCHANGED <<basis, red, geo, mf, pop, stack, ion, lll, det>>

\* Phase 1: let geometry = builder.compute_geometry(crystal)?;
GeometryResult(st, geometry) ==
    IF geometry.kind # "ok" THEN SurfaceError(st, geometry.why)
    ELSE [st EXCEPT !.pc = "topology", !.geometry = geometry]

GenMath ==
    /\ cli.pc = "math"
    /\ cli' = GeometryResult(After(cli, "compute_geometry"),
                             compute_geometry(cli.crystal.lattice, cli.args.miller_indices,
                                              cli.args.thickness, cli.args.vacuum))
    /\ UNCHANGED <<basis, red, geo, mf, pop, stack, ion, lll, det>>

\* Phase 2: config.offset, or the first cut of the void crawler, or 0.
GenTopology ==
    /\ cli.pc = "topology"
    /\ cli' = [After(cli, "offset") EXCEPT
                 !.pc = "synthesis",
                 !.offset = IF cli.args.offset.kind = "Some" THEN cli.args.offset.value
                            ELSE CrawlerOffset(cli.crystal, cli.args.miller_indices)]
    /\ UNCHANGED <<basis, red, geo, mf, pop, stack, ion, lll, det>>

\* Phase 3: let mut slab_atoms = SlabPopulator::populate(...)?;
PopulateResult(st, slab) ==
    IF slab.kind # "ok" THEN SurfaceError(st, slab.why)
    ELSE [st EXCEPT !.pc = "physics", !.slab_atoms = slab.atoms]

GenSynthesis ==
    /\ cli.pc = "synthesis"
    /\ cli' = PopulateResult(After(cli, "populate"),
                             populate(cli.crystal, cli.geometry, cli.molecules, cli.offset))
    /\ UNCHANGED <<basis, red, geo, mf, pop, stack, ion, lll, det>>

\* Phase 4: Lattice::new(geometry.basis)?, then the call of stabilize.
GenPhysics ==
    /\ cli.pc = "physics"
    /\ IF DetTooSmall(cli.geometry.basis)
       THEN /\ cli' = SurfaceError(After(cli, "lattice"), "Lattice has zero or near-zero volume.")
            /\ ion' = ion
       ELSE /\ cli' = [After(After(cli, "lattice"), "stabilize") EXCEPT !.pc = "stabilize"]
            /\ ion' = IonCallOf(cli.slab_atoms, Lattice(cli.geometry.basis),
                                IF cli.args.reconstruct THEN DipoleCorrection ELSE NoMode,
                                [kind |-> "main"])
    /\ UNCHANGED <<basis, red, geo, mf, pop, stack, lll, det>>

\* The report of line 118: the chemistry lines, the header, the plane, the
\* spacing, the layers, the offset and the physics report.
SurfaceReport(st, phys_report) ==
    st.report_buffer \o
    << "--- Surface Generation Report ---", st.args.miller_indices, st.geometry.d_hkl,
       st.geometry.n_layers, st.offset, phys_report >>

\* Phase 5 and Ok((Crystal { lattice: slab_lattice, atoms: slab_atoms }, report)).
GenReport ==
    /\ cli.pc = "stabilize"
    /\ ion.pc = "returned"
    /\ cli' = [After(cli, "report") EXCEPT
                 !.pc = "to_cif",
                 !.surface = Ok([slab |-> [lattice |-> ion.lattice, atoms |-> ion.res.atoms],
                                 report |-> SurfaceReport(cli, ion.res.report)])]
    /\ UNCHANGED <<basis, red, geo, mf, pop, stack, ion, lll, det>>

\* writer::to_cif(&slab, &output)?; Ok(())
MainWrite ==
    /\ cli.pc = "to_cif"
    /\ \E written \in BOOLEAN :
          cli' = MainExit(After(cli, "to_cif"),
                          IF written THEN Ok("()") ELSE Err("Could not write CIF file"))
    /\ UNCHANGED <<basis, red, geo, mf, pop, stack, ion, lll, det>>

MainNext ==
    \/ MainValidate \/ MainParse \/ MainMolecules
    \/ GenSemantic \/ GenMath \/ GenTopology \/ GenSynthesis \/ GenPhysics
    \/ IonNext
    \/ GenReport \/ MainWrite

SpecMain == MainInit /\ [][MainNext]_vars

(***************************************************************************)
(* Claims about the run of generate_surface and of the command line.       *)
(***************************************************************************)
SurfaceStages == << "tagging", "compute_geometry", "offset", "populate", "lattice", "stabilize" >>

IsPrefix(s, t) == Len(s) <= Len(t) /\ s = SubSeq(t, 1, Len(s))

\* The phases of generate_surface among the steps executed so far.
SurfaceTrace == SelectSeq(cli.stages, LAMBDA s : s \in Range(SurfaceStages))

ExpectedStages == IF cli.args.with_mofid THEN SurfaceStages ELSE Tail(SurfaceStages)

\* C21: the phases of generate_surface run in the order tagging (only when
\* enabled), compute_geometry, offset selection, populate, slab lattice,
\* stabilize, each at most once; when a phase has failed the call has
\* returned the error, the failed phase is the last step executed, and no
\* slab and no report exist; a slab is returned only after all phases ran.
C21_StagesInOrder ==
    /\ IsPrefix(SurfaceTrace, ExpectedStages)
    /\ cli.surface.kind = "err" =>
          /\ cli.pc = "exit"
          /\ cli.exit.result = cli.surface
          /\ cli.stages # <<>>
          /\ cli.stages[Len(cli.stages)] = SurfaceTrace[Len(SurfaceTrace)]
          /\ "report" \notin Range(cli.stages)
    /\ cli.surface.kind = "ok" => SurfaceTrace = ExpectedStages

\* populate has failed after tagging ran and the error has been returned.
C21_Witness ==
    /\ cli.surface.kind = "err"
    /\ cli.stages[Len(cli.stages)] = "populate"
    /\ "tagging" \in Range(cli.stages)

ZeroMillerError == Err("Miller indices cannot be (0,0,0).")

\* C22: find_primitive_in_plane_basis(0, 0, 0) returns its error, and a run
\* with Miller indices (0,0,0) that reached compute_geometry has failed with
\* that error: no geometry, no offset, no population and no reconstruction.
C22_ZeroMillerRejected ==
    /\ find_primitive_in_plane_basis(0, 0, 0) = ZeroMillerError
    /\ (cli.args.miller_indices = <<0, 0, 0>> /\ "compute_geometry" \in Range(cli.stages)) =>
          /\ cli.surface = ZeroMillerError
          /\ cli.exit.code = 1
          /\ cli.geometry = None
          /\ cli.slab_atoms = None
          /\ Range(cli.stages) \cap {"offset", "populate", "lattice", "stabilize"} = {}
          /\ ion = Idle

\* A run with (0,0,0) on a readable crystal has left compute_geometry.
C22_Witness ==
    /\ cli.args.miller_indices = <<0, 0, 0>>
    /\ cli.crystal # None
    /\ cli.stages # <<>>
    /\ cli.stages[Len(cli.stages)] = "compute_geometry"

BothExposeFlags == cli.args.expose_nodes /\ cli.args.expose_linkers

\* C24: a run with both --expose-nodes and --expose-linkers exits with code
\* 2 after the validation alone (no CIF parse, no phase of the pipeline);
\* any other failed run exits with code 1 and a successful run with code 0.
C24_ExitCodes ==
    cli.pc = "exit" =>
       IF BothExposeFlags
       THEN cli.exit.code = 2 /\ cli.stages = <<"validate">> /\ cli.crystal = None
       ELSE cli.exit.code = IF cli.exit.result.kind = "ok" THEN 0 ELSE 1

\* What the code does with both flags: status 1, before the parse.
FlagsExitWithOne ==
    (cli.pc = "exit" /\ BothExposeFlags) =>
       cli.exit.code = 1 /\ cli.stages = <<"validate">> /\ cli.crystal = None

(***************************************************************************)
(* population.rs: the replication range against the layer window, in       *)
(* atomic mode, for cut offsets inside and far outside the bulk cell.      *)
(***************************************************************************)
ImageSpan == 8

OffsetRuns ==
    { Run(c, hkl, QInt(t), QZero, o, FALSE) :
        c \in { SimpleCubic, DimerCrystal, TaggedCrystal },
        hkl \in { <<1, 0, 0>>, <<1, 2, 2>> },
        t \in { 1, 5 },
        o \in { QInt(-15), QNeg(Half), QZero, Half, QInt(4), QInt(15) } }

OffsetInit ==
    /\ pop \in OffsetRuns
    /\ basis = Idle
    /\ red = Idle
    /\ geo = Idle
    /\ mf = Idle
    /\ stack = Idle
    /\ ion = Idle
    /\ lll = Idle
    /\ det = Idle
    /\ cli = Idle

SpecOffsets == OffsetInit /\ [][GenNext]_vars

\* populate has returned: a slab, or the EmptySlab error.
PopulateReturned == pop.pc = "done" \/ (pop.pc = "failed" /\ "slab" \in DOMAIN pop)

\* A position modulo the in-plane vectors a' and b' of the slab cell: its
\* slab coordinates with the first two reduced to [0, 1).
ModInPlane(inv_rows, x) ==
    LET f == TransposeApply(inv_rows, x.pos)
    IN  << QSub(f[1], QInt(QFloor(f[1]))), QSub(f[2], QInt(QFloor(f[2]))), f[3], x.element >>

\* The atoms populate returned, at their positions before centring.
Emitted(w, expected) ==
    IF pop.pc # "done" THEN {}
    ELSE LET shift_val == QSub(LowestOf(w, SlabCarts), LowestOf(w, Positions(expected)))
         IN  { ReturnedImage(w, n, shift_val) : n \in DOMAIN pop.slab.atoms }

\* Every image of `images` has a returned atom that differs from it by an
\* integer combination of a' and b'.
CoveredBy(inv_rows, images, emitted) ==
    { ModInPlane(inv_rows, x) : x \in images } \subseteq { ModInPlane(inv_rows, x) : x \in emitted }

WindowImages(w) == { BulkImage(im) : im \in AcceptedAtoms(w, ShiftsWithin(ImageSpan)) }

\* C28: in atomic mode, for every cut offset, every lattice image of a bulk
\* atom whose layer index is in the window has a returned atom equivalent to
\* it modulo a' and b'.
C28_RangeSufficient ==
    (PopulateReturned /\ pop.molecules = <<>>) =>
        CoveredBy(InverseRows(pop.geometry.basis), WindowImages(PopWindow),
                  Emitted(PopWindow, ExpectedImages(PopWindow, PopShifts)))

\* The same for the cut offsets within one bulk cell height of the origin.
OffsetWithinCell == QLe(QAbs(pop.offset), PopCellHeight(PopWindow))

RangeSufficientNearOrigin ==
    (PopulateReturned /\ pop.molecules = <<>> /\ OffsetWithinCell) =>
        CoveredBy(InverseRows(pop.geometry.basis), WindowImages(PopWindow),
                  Emitted(PopWindow, ExpectedImages(PopWindow, PopShifts)))

(***************************************************************************)
(* The EmptySlab error of populate in the run of the command line, where   *)
(* populate works on the molecules of find_molecules.                      *)
(***************************************************************************)
\* slab_normal, d_hkl, min_idx and max_idx of populate(_, geometry, _, offset_z)
WindowOf(geometry, offset_z) ==
    [normal |-> Normalize(geometry.basis[3]), d_hkl |-> geometry.d_hkl,
     min_idx |-> QSub(QDiv(offset_z, geometry.d_hkl), LayerEpsilon),
     max_idx |-> QSub(QAdd(QDiv(offset_z, geometry.d_hkl), QInt(geometry.n_layers)),
                      LayerEpsilon)]

\* Some periodic image of a molecule, up to `span` cells away, has its
\* centre of mass in the window.
ImageInWindow(crystal, molecules, w, span) ==
    \E m \in DOMAIN molecules : \E i \in -span .. span, j \in -span .. span, k \in -span .. span :
        LayerInWindow(w, QVAdd(molecules[m].center_of_mass,
                               to_cartesian(crystal.lattice, QV(<<i, j, k>>))))

EmptySlab == Err("empty")

JustPopulated == cli.stages # <<>> /\ cli.stages[Len(cli.stages)] = "populate"

WindowOccupied ==
    ImageInWindow(cli.crystal, cli.molecules, WindowOf(cli.geometry, cli.offset), ImageSpan)

\* C23: populate returns the EmptySlab error, and no atom list, exactly when
\* no periodic image falls in the layer window; and every Ok of
\* generate_surface carries a slab of at least one atom and a non-empty
\* report.
C23_EmptySlabExactly ==
    /\ JustPopulated =>
          /\ (cli.surface = EmptySlab) <=> ~WindowOccupied
          /\ cli.surface = EmptySlab => cli.slab_atoms = None
          /\ cli.surface # EmptySlab => (cli.slab_atoms # None /\ cli.slab_atoms # <<>>)
    /\ cli.surface.kind = "ok" =>
          /\ Len(cli.surface.value.slab.atoms) >= 1
          /\ cli.surface.value.report # <<>>

\* The part of it that does not depend on the replication range.
EmptySlabOnlyIfNothingFound ==
    /\ JustPopulated =>
          /\ ~WindowOccupied => cli.surface = EmptySlab
          /\ cli.surface = EmptySlab => cli.slab_atoms = None
          /\ cli.surface # EmptySlab => (cli.slab_atoms # None /\ cli.slab_atoms # <<>>)
          /\ (cli.surface = EmptySlab /\ WindowOccupied) => cli.offset = QInt(15)
    /\ cli.surface.kind = "ok" =>
          /\ Len(cli.surface.value.slab.atoms) >= 1
          /\ cli.surface.value.report # <<>>

\* An empty window was rejected.
EmptyWindowReached == JustPopulated /\ cli.surface = EmptySlab /\ ~WindowOccupied

(***************************************************************************)
(* ionic.rs: the plane clustering of stabilize on slabs with atoms closer  *)
(* than the tolerance: sites at z = 0, 0.2, 0.4 and 2 A.                   *)
(***************************************************************************)
CloseSites == { At(QZero, QZero, z) : z \in { QZero, <<1, 40>>, <<1, 20>>, <<1, 4>> } }

CloseSlabs ==
    UNION { [1 .. k -> { Atom(el, f, Unknown) : el \in {"Na", "Cl"}, f \in CloseSites }] :
              k \in 0 .. MaxIons }

PlanesInit ==
    /\ ion \in { IonCallOf(atoms, IonLattice, mode, [kind |-> "direct"]) :
                   atoms \in CloseSlabs, mode \in { NoMode, DipoleCorrection } }
    /\ basis = Idle
    /\ red = Idle
    /\ geo = Idle
    /\ mf = Idle
    /\ pop = Idle
    /\ stack = Idle
    /\ lll = Idle
    /\ det = Idle
    /\ cli = Idle

SpecPlanes == PlanesInit /\ [][IonNext]_vars

Clustered == ion.pc = "clustered"

\* The number of the plane that holds atom i.
PlaneOf(planes, i) == CHOOSE p \in DOMAIN planes : i \in Range(planes[p])

\* C25: two atoms consecutive in the z-sorted order are in the same plane if
\* and only if their z values differ by less than 0.25; the atoms at z = 0,
\* 0.2 and 0.4 form a single plane.
C25_ConsecutiveRule ==
    Clustered =>
        LET order == Flatten(ion.planes)
        IN  \A n \in 1 .. Len(order) - 1 :
                (PlaneOf(ion.planes, order[n]) = PlaneOf(ion.planes, order[n + 1]))
                <=> QLt(QSub(ion.zs[order[n + 1]], ion.zs[order[n]]), PlaneTolerance)

\* What the loop does: an atom joins the plane of its predecessor if and
\* only if its z is less than 0.25 above the z of the atom that opened that
\* plane.
AnchorRule ==
    Clustered =>
        LET order == Flatten(ion.planes)
        IN  \A n \in 1 .. Len(order) - 1 :
                (PlaneOf(ion.planes, order[n]) = PlaneOf(ion.planes, order[n + 1]))
                <=> QLt(QSub(ion.zs[order[n + 1]],
                             ion.zs[ion.planes[PlaneOf(ion.planes, order[n])][1]]),
                        PlaneTolerance)

\* Atoms at z = 0, 0.2 and 0.4 A have been clustered.
ThreeCloseAtoms == Clustered /\ Range(ion.zs) = { QZero, <<1, 5>>, <<2, 5>> }

(***************************************************************************)
(* ionic.rs: when stabilize moves atoms, and which.                        *)
(***************************************************************************)
\* The atoms whose coordinates the call changed.
Changed == { i \in DOMAIN ion.atoms :
               ion.res.atoms[i].fractional_coords # ion.atoms[i].fractional_coords }

\* The planes of the atoms as they were handed in.
PlanesOfCall ==
    IF ion.atoms = <<>> THEN <<>>
    ELSE PlanesOf(CartZ(ion.lattice, ion.atoms), SortedIndices(CartZ(ion.lattice, ion.atoms)))

TopPlaneOf(planes) == IF planes = <<>> THEN <<>> ELSE planes[Len(planes)]

MoveCondition(planes) ==
    /\ ion.mode = DipoleCorrection
    /\ ion.atoms # <<>>
    /\ QLt(DipoleThreshold, QAbs(DipoleZ(ion.lattice, ion.atoms)))
    /\ Len(planes) >= 2
    /\ Len(TopPlaneOf(planes)) >= 2

MovesExactly(planes) ==
    IF MoveCondition(planes)
    THEN /\ Changed = Range(SubSeq(TopPlaneOf(planes), 1, Len(TopPlaneOf(planes)) \div 2))
         /\ Changed # {}
         /\ ion.res.report.kind = "moved"
    ELSE /\ Changed = {}
         /\ ion.res.report.kind # "moved"

\* C26: stabilize changes coordinates exactly when the mode is
\* DipoleCorrection, the list is non-empty, |D| > 0.5, there are at least two
\* planes and the top plane has at least two atoms; then the first
\* floor(|top|/2) atoms of the top plane, and no others, are changed;
\* otherwise no atom is changed and the report is not a Moved report.
C26_MovesExactlyWhen == IonReturned => MovesExactly(PlanesOfCall)

\* A call changed the first atom of a top plane of two and left the second.
C26_Witness ==
    /\ IonReturned
    /\ MoveCondition(PlanesOfCall)
    /\ Len(TopPlaneOf(PlanesOfCall)) = 2
    /\ Changed = { TopPlaneOf(PlanesOfCall)[1] }

(***************************************************************************)
(* population.rs: periodic images among the returned atoms.                *)
(***************************************************************************)
IsIntegerVector(f) == f[1][2] = 1 /\ f[2][2] = 1 /\ f[3][2] = 1

\* The atoms of the bulk cell are on distinct sites modulo the bulk lattice.
DistinctSites(crystal) ==
    \A a, b \in DOMAIN crystal.atoms :
        a # b => ~IsIntegerVector(QVSub(crystal.atoms[a].fractional_coords,
                                        crystal.atoms[b].fractional_coords))

\* C27: for a bulk crystal with distinct sites modulo its lattice, the
\* fractional coordinates (slab basis) of two distinct returned atoms never
\* differ by an integer vector.
C27_NoPeriodicDuplicates ==
    (Populated /\ DistinctSites(pop.crystal)) =>
        \A n, m \in DOMAIN pop.slab.atoms :
            n # m => ~IsIntegerVector(QVSub(pop.slab.atoms[n].fractional_coords,
                                            pop.slab.atoms[m].fractional_coords))

(***************************************************************************)
(* connectivity.rs: the stored molecule atoms as periodic images.          *)
(***************************************************************************)
\* The stored position of atom k of molecule c less the Cartesian position
\* of the original fractional coordinates, in units of the bulk vectors.
ImageShift(c, k) ==
    to_fractional(mf.crystal.lattice,
                  QVSub(mf.res.molecules[c].atoms[k][2],
                        to_cartesian(mf.crystal.lattice,
                                     mf.crystal.atoms[mf.res.components[c][k]].fractional_coords)))

\* C29: every stored molecule atom differs from the Cartesian position of
\* its atom's original fractional coordinates by an integer combination of
\* the bulk lattice vectors.
C29_AtomsArePeriodicImages ==
    MolReturned =>
        \A c \in DOMAIN mf.res.molecules :
            \A k \in DOMAIN mf.res.molecules[c].atoms : IsIntegerVector(ImageShift(c, k))

\* A molecule of two or more atoms holds an atom stored a lattice vector
\* away from its original position and one stored at its original position.
C29_Witness ==
    /\ MolReturned
    /\ \E c \in DOMAIN mf.res.molecules :
          /\ \E k \in DOMAIN mf.res.molecules[c].atoms : ImageShift(c, k) # QVZero
          /\ \E k \in DOMAIN mf.res.molecules[c].atoms : ImageShift(c, k) = QVZero

(***************************************************************************)
(* lll.rs: termination of reduce_2d_integer.  A call that has entered its  *)
(* loop keeps running; nothing else is scheduled.                          *)
(***************************************************************************)
\* The pairs of vectors with z = 0 or 1.
FlatVectors == CompRange \X CompRange \X {0, 1}

RedFlatInit ==
    /\ red \in { [pc |-> "entry", u |-> a, v |-> b, u0 |-> a, v0 |-> b, iters |-> 0] :
                 a \in FlatVectors, b \in FlatVectors }
    /\ basis = Idle
    /\ geo = Idle
    /\ mf = Idle
    /\ pop = Idle
    /\ stack = Idle
    /\ ion = Idle
    /\ lll = Idle
    /\ det = Idle
    /\ cli = Idle

SpecReduce2DFair == RedFlatInit /\ [][RedNext]_vars /\ WF_vars(RedNext)

\* A pass through the loop body that did not return.
PassContinues == red.pc = "loop" /\ red'.pc = "loop"

NormSq(x) == Dot(x, x)

\* C30: reduce_2d_integer returns for every pair of integer vectors, and
\* every pass through the loop that does not return leaves v.v strictly
\* smaller than it found it.
C30_EachPassShortensV ==
    /\ <>(red.pc = "done")
    /\ [][PassContinues => NormSq(red'.v) < NormSq(red.v)]_vars

\* C30 as amended: reduce_2d_integer returns for every pair, and every pass
\* that does not return leaves u.u + v.v strictly smaller and v.v no larger.
C30_EachPassShortensPair ==
    /\ <>(red.pc = "done")
    /\ [][PassContinues =>
            /\ NormSq(red'.u) + NormSq(red'.v) < NormSq(red.u) + NormSq(red.v)
            /\ NormSq(red'.v) <= NormSq(red.v)]_vars

\* A call returned after two passes that did not return.
C30_Witness == red.pc = "done" /\ red.iters >= 2

\* A pass that did not return has swapped in a u as long as the v it found.
PassKeptLengthOfV ==
    /\ red.pc = "loop"
    /\ red.iters = 1
    /\ NormSq(red.v) = NormSq(SwapIfLonger(red.u0, red.v0)[2])

=============================================================================
